---------------------------- MODULE Spec2Model ----------------------------
(***************************************************************************)
(* Diffusion Studio: the retry wrapper callGeminiWithRetry and the         *)
(* generation-orchestration / session-state controller of the sequential   *)
(* (retry-wrapped) App component of src/App.tsx.                            *)
(*                                                                         *)
(* Two specifications share the module:                                    *)
(*   SpecRetry  one call of callGeminiWithRetry, stepped at its awaits;     *)
(*   Spec       the App: session state, user intents and the asynchronous   *)
(*              workflows started by them, stepped at their awaits.         *)
(* Optional values (TypeScript's undefined / null) are encoded as          *)
(* sequences of length at most one: None is <<>>, Some(x) is <<x>>.         *)
(* JavaScript strings whose characters the code inspects (error messages)  *)
(* are sequences of one-character strings.                                  *)
(***************************************************************************)
EXTENDS Integers, Sequences, FiniteSets, TLC

None == <<>>
Some(x) == <<x>>
IsSome(o) == Len(o) = 1
Get(o) == o[1]

(***************************************************************************)
(* Bounds of the model.                                                    *)
(***************************************************************************)
\* largest maxRetries argument tried in SpecRetry
MaxRetriesBound == 3
\* the small initialDelay arguments tried in SpecRetry are 1..MaxDelay
MaxDelay == 2
\* sessions created by startGeneration in one behaviour of Spec
MaxSessions == 2
\* addAgent workflows started in one behaviour of Spec
MaxAgents == 1
\* a refinement is started only on an artifact with fewer variations
MaxVariations == 2
\* calls of refineArtifact, switchVariation, onRemove and New Project in one
\* behaviour of Spec
MaxIntents == 2
\* the first reading of Date.now(); the later ones are at most
\* FirstClockReading + MaxAgents - 1
FirstClockReading == 10

(***************************************************************************)
(* Program constants.                                                      *)
(***************************************************************************)
\* callGeminiWithRetry(fn, maxRetries = 3, initialDelay = 3000)
DefaultMaxRetries == 3
DefaultInitialDelay == 3000

(***************************************************************************)
(* Error messages, as character sequences.                                 *)
(***************************************************************************)
Marker429 == <<"4", "2", "9">>
MarkerResourceExhausted ==
    <<"R", "E", "S", "O", "U", "R", "C", "E", "_",
      "E", "X", "H", "A", "U", "S", "T", "E", "D">>

\* String.prototype.includes
Includes(s, sub) ==
    \E k \in 0..(Len(s) - Len(sub)) : SubSeq(s, k + 1, k + Len(sub)) = sub

\* the messages of the errors fn may reject with
MsgTooManyRequests == <<"g", "o", "t", " ">> \o Marker429
MsgQuota == MarkerResourceExhausted \o <<":", " ", "q">>
MsgServerError == <<"5", "0", "0">>
MsgAlmost == <<"4", "2", " ", "9">>
MsgEmpty == <<>>
ErrorMessages ==
    {MsgTooManyRequests, MsgQuota, MsgServerError, MsgAlmost, MsgEmpty}

\* mutant: every error is taken for a rate-limit error and retried
IsRateLimitAnyError(error) == TRUE

\* const errorMsg = error.message || "";
\* errorMsg.includes('429') || errorMsg.includes('RESOURCE_EXHAUSTED')
IsRateLimit(error) ==
    \/ Includes(error.message, Marker429)
    \/ Includes(error.message, MarkerResourceExhausted)

\* mutant: the backoff does not grow with the attempt number
BackoffDelayConstant(initialDelay, i) == initialDelay

\* await wait(initialDelay * (i + 1))
BackoffDelay(initialDelay, i) == initialDelay * (i + 1)

(***************************************************************************)
(* State.                                                                  *)
(***************************************************************************)
VARIABLES
    \* ---- one call of callGeminiWithRetry (SpecRetry) ----
    rPc,          \* "calling" | "waiting" | "returned" | "thrown"
    rMaxRetries,  \* argument maxRetries
    rInitialDelay,\* argument initialDelay
    rI,           \* the loop variable i
    rLastError,   \* lastError: None (undefined) or Some(error)
    rResult,      \* the value returned or the error thrown (an option)
    rHist,        \* history: the outcome of every invocation of fn, in order
    rWaits        \* history: the argument of every wait(ms) performed, in order

retryVars ==
    <<rPc, rMaxRetries, rInitialDelay, rI, rLastError, rResult, rHist, rWaits>>

VARIABLES
    \* ---- the App component (Spec) ----
    session,         \* useState<Session | null>: None or Some(session)
    isGenerating,    \* useState(false)
    isRefining,      \* useState(false)
    projectMetadata, \* useState<{title, stack} | null>
    genRuns,         \* startGeneration calls in flight, oldest first
    agentRuns,       \* addAgent calls in flight, oldest first
    refineRuns,      \* refineArtifact calls in flight, oldest first
    nextSid,         \* the next session id Math.random() yields
    clock,           \* the last reading of Date.now()
    budget           \* what the behaviour may still start (bounds the model)

appVars ==
    <<session, isGenerating, isRefining, projectMetadata, genRuns, agentRuns,
      refineRuns, nextSid, clock, budget>>

VARIABLES
    \* ---- focus and drawer of the App component ----
    focusedArtifactId, \* useState<string | null>: None or Some(id)
    isDrawerOpen       \* useState(false)

focusVars == <<focusedArtifactId, isDrawerOpen>>

vars == <<retryVars, appVars, focusVars>>

(***************************************************************************)
(* callGeminiWithRetry, stepped at its awaits.                             *)
(***************************************************************************)
RetryValues == {"v1", "v2"}
Delays == (1..MaxDelay) \cup {DefaultInitialDelay}

\* what one invocation of fn may do; an error carries the number of the
\* invocation that raised it (the identity of the error object)
FnOutcomes(n) ==
    [kind : {"ok"}, value : RetryValues, message : {MsgEmpty}, at : {n}]
      \cup [kind : {"err"}, value : {""}, message : ErrorMessages, at : {n}]

\* number of invocations of fn so far
rCalls == Len(rHist)

\* mutant: the loop runs once too often
LoopContinuesOffByOne(i, maxRetries) == i <= maxRetries

\* for (let i = 0; i < maxRetries; i++): the loop test at index i
LoopContinues(i, maxRetries) == i < maxRetries

\* after the loop test at index i: fn is invoked again, or the loop is left
\* and lastError is thrown
AfterLoopTest(i, maxRetries, lastError) ==
    IF LoopContinues(i, maxRetries)
        THEN [pc |-> "calling", result |-> None]
        ELSE [pc |-> "thrown", result |-> lastError]

RetryInit ==
    /\ rMaxRetries \in 0..MaxRetriesBound
    /\ rInitialDelay \in Delays
    /\ rI = 0
    /\ rLastError = None
    /\ rHist = <<>>
    /\ rWaits = <<>>
    /\ rPc = AfterLoopTest(0, rMaxRetries, None).pc
    /\ rResult = AfterLoopTest(0, rMaxRetries, None).result

\* return await fn();
FnResolves ==
    /\ rPc = "calling"
    /\ \E out \in FnOutcomes(rCalls + 1) :
          /\ out.kind = "ok"
          /\ rHist' = Append(rHist, out)
          /\ rPc' = "returned"
          /\ rResult' = Some(out.value)
    /\ UNCHANGED <<rMaxRetries, rInitialDelay, rI, rLastError, rWaits>>
    /\ UNCHANGED <<appVars, focusVars>>

\* the catch block: lastError = error; a rate-limit error starts the backoff
\* wait, any other error is thrown again
Catch(out) ==
    IF IsRateLimit(out)
        THEN /\ rPc' = "waiting"
             /\ rWaits' = Append(rWaits, BackoffDelay(rInitialDelay, rI))
             /\ rResult' = None
        ELSE /\ rPc' = "thrown"
             /\ rResult' = Some(out)
             /\ rWaits' = rWaits

FnRejects ==
    /\ rPc = "calling"
    /\ \E out \in FnOutcomes(rCalls + 1) :
          /\ out.kind = "err"
          /\ rHist' = Append(rHist, out)
          /\ rLastError' = Some(out)
          /\ Catch(out)
    /\ UNCHANGED <<rMaxRetries, rInitialDelay, rI>>
    /\ UNCHANGED <<appVars, focusVars>>

\* the wait elapses: continue; i++; loop test
WaitElapses ==
    /\ rPc = "waiting"
    /\ rI' = rI + 1
    /\ rPc' = AfterLoopTest(rI + 1, rMaxRetries, rLastError).pc
    /\ rResult' = AfterLoopTest(rI + 1, rMaxRetries, rLastError).result
    /\ UNCHANGED <<rMaxRetries, rInitialDelay, rLastError, rHist, rWaits>>
    /\ UNCHANGED <<appVars, focusVars>>

RetryNext == FnResolves \/ FnRejects \/ WaitElapses

(***************************************************************************)
(* The outcomes of a whole call of callGeminiWithRetry, for the App: the   *)
(* loop is run from index i with every outcome fn may have at each          *)
(* invocation.  The waits change no state of the App.                       *)
(***************************************************************************)
Returned(v, dummy) == [kind |-> "returned", value |-> v, error |-> None]
Thrown(e, dummy) == [kind |-> "thrown", value |-> dummy, error |-> e]

\* fn's possible outcomes at its n-th invocation: it returns one of
\* okValues or rejects with an error whose message is one of errMessages
FnMayDo(okValues, errMessages, dummy, n) ==
    [kind : {"ok"}, value : okValues, message : {MsgEmpty}, at : {n}]
      \cup [kind : {"err"}, value : {dummy}, message : errMessages, at : {n}]

RECURSIVE RetryOutcomes(_, _, _, _, _, _)
RetryOutcomes(okValues, errMessages, dummy, maxRetries, i, lastError) ==
    IF LoopContinues(i, maxRetries)
        THEN LET outs == FnMayDo(okValues, errMessages, dummy, i + 1)
             IN  {Returned(o.value, dummy) : o \in {x \in outs : x.kind = "ok"}}
                   \cup {Thrown(Some(o), dummy) :
                           o \in {x \in outs : x.kind = "err" /\ ~IsRateLimit(x)}}
                   \cup UNION {RetryOutcomes(okValues, errMessages, dummy,
                                             maxRetries, i + 1, Some(o)) :
                           o \in {x \in outs : x.kind = "err" /\ IsRateLimit(x)}}
        ELSE {Thrown(lastError, dummy)}

\* callGeminiWithRetry(fn) with the default maxRetries and initialDelay
CallGeminiWithRetry(okValues, errMessages, dummy) ==
    RetryOutcomes(okValues, errMessages, dummy, DefaultMaxRetries, 0, None)

(***************************************************************************)
(* The App component: texts, prompts, artifacts.                           *)
(***************************************************************************)
\* the values of result.text; "" also stands for undefined (both are falsy)
RawTexts == {"", "t1"}
ErrorContent == "Error generating content"

\* a || b on strings
OrElse(a, b) == IF a = "" THEN b ELSE a
\* o || b where o is an optional string
OptOrElse(o, b) == IF IsSome(o) THEN OrElse(Get(o), b) ELSE b

\* prompts are character sequences: String.prototype.trim
Whitespace == {" "}
RECURSIVE TrimStart(_)
TrimStart(p) ==
    IF p # <<>> /\ Head(p) \in Whitespace THEN TrimStart(Tail(p)) ELSE p
RECURSIVE TrimEnd(_)
TrimEnd(p) ==
    IF p # <<>> /\ p[Len(p)] \in Whitespace
        THEN TrimEnd(SubSeq(p, 1, Len(p) - 1))
        ELSE p
\* mutant: the prompt is tested as typed
TrimNothing(p) == p
Trim(p) == TrimEnd(TrimStart(p))

\* the active prompts startGeneration is called with (customPrompt || prompt)
PromptInputs == {<<>>, <<" ">>, <<"a", " ">>}

\* activePrompt.substring(0, 30)
PromptHead(p) == SubSeq(p, 1, IF Len(p) < 30 THEN Len(p) ELSE 30)

\* a reasoning string: its fixed text and the prompt or title spliced in
Reasoning(text, promptArg, titleArg) ==
    Some([text |-> text, prompt |-> promptArg, title |-> titleArg])

\* mutant: a new artifact starts idle instead of streaming
NewArtifactIdle(id, title, type, reasoning) ==
    [id |-> id, title |-> title, type |-> type, content |-> "",
     status |-> "idle", reasoning |-> reasoning,
     variations |-> None, currentVariationIndex |-> None]

\* interface Artifact: id n stands for the string `art-${n}`
NewArtifact(id, title, type, reasoning) ==
    [id |-> id, title |-> title, type |-> type, content |-> "",
     status |-> "streaming", reasoning |-> reasoning,
     variations |-> None, currentVariationIndex |-> None]

\* const initialArtifacts: Artifact[] = [...]
InitialArtifacts ==
    << NewArtifact(1, "UX Expert Strategy", "architecture",
                   Reasoning("Analyzing user journey...", <<>>, "")),
       NewArtifact(2, "Persona Specialist Strategy", "logic",
                   Reasoning("Defining core personas...", <<>>, "")),
       NewArtifact(3, "UI Expert Strategy", "ui",
                   Reasoning("Projecting visual identity...", <<>>, "")) >>

LastClockReading == FirstClockReading + MaxAgents - 1
ArtifactIds == {1, 2, 3} \cup (FirstClockReading..LastClockReading)

\* a.variations || []
VariationsOf(a) == IF IsSome(a.variations) THEN Get(a.variations) ELSE <<>>

\* a.variations?.[index]: None when there are no variations or the index
\* names no element (JavaScript indices start at 0)
VariationAt(a, index) ==
    IF IsSome(a.variations) /\ index >= 0 /\ index < Len(Get(a.variations))
        THEN Some(Get(a.variations)[index + 1])
        ELSE None

(***************************************************************************)
(* The updaters handed to setSession.                                      *)
(***************************************************************************)
\* { ...prev, artifacts }
WithArtifacts(prev, artifacts) == [prev EXCEPT !.artifacts = artifacts]

\* mutant: the completion stores no variation
CompletedArtifactNoVariation(a, content, reasoning) ==
    [a EXCEPT !.content = content, !.status = "complete",
              !.reasoning = reasoning]

\* mutant: the stored variation is taken from the raw response text while
\* content keeps the fallback text
CompletedArtifactRawVariation(a, content, reasoning) ==
    [a EXCEPT !.content = content, !.status = "complete",
              !.reasoning = reasoning,
              !.variations = Some(<<IF content = ErrorContent THEN "" ELSE content>>),
              !.currentVariationIndex = Some(0)]

\* startGeneration: { ...a, content, status: 'complete', reasoning,
\*                    variations: [content], currentVariationIndex: 0 }
CompletedArtifact(a, content, reasoning) ==
    [a EXCEPT !.content = content, !.status = "complete",
              !.reasoning = reasoning, !.variations = Some(<<content>>),
              !.currentVariationIndex = Some(0)]

\* mutant: the streaming update also clears the content
RecalibratingArtifactCleared(a) ==
    [a EXCEPT !.status = "streaming", !.content = "",
              !.reasoning = Reasoning("Recalibrating projection...", <<>>, "")]

\* refineArtifact, before the call: { ...a, status: 'streaming', reasoning }
RecalibratingArtifact(a) ==
    [a EXCEPT !.status = "streaming",
              !.reasoning = Reasoning("Recalibrating projection...", <<>>, "")]

\* mutant: the refined text replaces the history instead of extending it
RefinedArtifactReplacing(a, updatedContent) ==
    [a EXCEPT !.content = updatedContent, !.status = "complete",
              !.variations = Some(<<updatedContent>>),
              !.currentVariationIndex = Some(0)]

\* refineArtifact, on success:
\*   const newVariations = [...(a.variations || []), updatedContent];
\*   { ...a, content: updatedContent, status: 'complete',
\*     variations: newVariations, currentVariationIndex: newVariations.length - 1 }
RefinedArtifact(a, updatedContent) ==
    LET newVariations == Append(VariationsOf(a), updatedContent)
    IN  [a EXCEPT !.content = updatedContent, !.status = "complete",
                  !.variations = Some(newVariations),
                  !.currentVariationIndex = Some(Len(newVariations) - 1)]

\* mutant: no fallback to the existing content
SwitchedArtifactNoFallback(a, index) ==
    [a EXCEPT !.content = OptOrElse(VariationAt(a, index), ""),
              !.currentVariationIndex = Some(index)]

\* switchVariation: { ...a, content: a.variations?.[index] || a.content,
\*                    currentVariationIndex: index }
SwitchedArtifact(a, index) ==
    [a EXCEPT !.content = OptOrElse(VariationAt(a, index), a.content),
              !.currentVariationIndex = Some(index)]

\* mutant: the filter keeps the artifact it should drop
WithoutArtifactInverted(prev, id) ==
    IF prev = None
        THEN None
        ELSE Some([Get(prev) EXCEPT
                     !.artifacts = SelectSeq(Get(prev).artifacts,
                                             LAMBDA a : a.id = id)])

\* onRemove: prev.artifacts.filter(a => a.id !== artifact.id)
WithoutArtifact(prev, id) ==
    IF prev = None
        THEN None
        ELSE Some([Get(prev) EXCEPT
                     !.artifacts = SelectSeq(Get(prev).artifacts,
                                             LAMBDA a : a.id # id)])

\* mutant: the new agent is put in front
WithNewAgentPrepended(prev, newAgent) ==
    IF prev = None
        THEN None
        ELSE Some([Get(prev) EXCEPT
                     !.artifacts = <<newAgent>> \o Get(prev).artifacts])

\* prev => prev ? { ...prev, artifacts: [...prev.artifacts, newAgent] } : null
WithNewAgent(prev, newAgent) ==
    IF prev = None
        THEN None
        ELSE Some([Get(prev) EXCEPT
                     !.artifacts = Append(Get(prev).artifacts, newAgent)])

\* session.artifacts.find(a => a.id === id): the first such artifact
FindArtifact(s, id) ==
    LET arts == s.artifacts
        hits == {k \in 1..Len(arts) : arts[k].id = id}
    IN  IF hits = {}
            THEN None
            ELSE Some(arts[CHOOSE k \in hits : \A j \in hits : k <= j])

\* a sequence without its k-th element
RemoveAt(seq, k) == SubSeq(seq, 1, k - 1) \o SubSeq(seq, k + 1, Len(seq))

(***************************************************************************)
(* Structured (JSON) responses.                                            *)
(***************************************************************************)
EmptyObject == [title |-> None, type |-> None]
SomeTitle == "Security Specialist Strategy"

\* JSON.parse: Some(object), or None where it throws a SyntaxError
JsonParse(text) ==
    CASE text = "{}" -> Some(EmptyObject)
      [] text = "{title}" -> Some([title |-> Some(SomeTitle), type |-> None])
      [] text = "{title,type}" ->
            Some([title |-> Some(SomeTitle), type |-> Some("logic")])
      [] OTHER -> None

MsgSyntaxError == <<"U", "n", "e", "x", "p", "e", "c", "t", "e", "d">>
ApiErrorMessages == {MsgTooManyRequests, MsgServerError}

\* the response texts of the manifest call and of the role-decision call
ManifestTexts == {"{title}", "oops"}
RoleTexts == {"", "{title,type}", "oops"}

\* async () => { ...; return JSON.parse(result.text || "{}"); }
JsonFnValues(texts) ==
    {Get(JsonParse(OrElse(t, "{}"))) :
        t \in {x \in texts : IsSome(JsonParse(OrElse(x, "{}")))}}
JsonFnErrors(texts) ==
    ApiErrorMessages \cup
      (IF \E x \in texts : ~IsSome(JsonParse(OrElse(x, "{}")))
          THEN {MsgSyntaxError} ELSE {})

(***************************************************************************)
(* Init.                                                                   *)
(***************************************************************************)
\* The behaviours explored are those of three budgets:
\*   one session, with add-agent and user intents;
\*   overlapping sessions with one user intent;
\*   overlapping sessions with add-agent.
\* sessions: startGeneration calls left; runs: startGeneration workflows
\* allowed in flight at once; agents: addAgent workflows left; intents:
\* refine / switchVariation / onRemove / New Project calls left.
Budgets ==
    { [sessions |-> 1, runs |-> 1,
       agents |-> MaxAgents, intents |-> MaxIntents],
      [sessions |-> MaxSessions, runs |-> MaxSessions,
       agents |-> 0, intents |-> 1],
      [sessions |-> MaxSessions, runs |-> MaxSessions,
       agents |-> MaxAgents, intents |-> 0] }

AppInit ==
    /\ session = None
    /\ isGenerating = FALSE
    /\ isRefining = FALSE
    /\ projectMetadata = None
    /\ genRuns = <<>>
    /\ agentRuns = <<>>
    /\ refineRuns = <<>>
    /\ nextSid = 1
    /\ clock = FirstClockReading
    /\ focusedArtifactId = None
    /\ isDrawerOpen = FALSE

\* no call of callGeminiWithRetry is stepped in Spec
RetryUnused ==
    /\ rPc = "unused"
    /\ rMaxRetries = 0
    /\ rInitialDelay = 0
    /\ rI = 0
    /\ rLastError = None
    /\ rResult = None
    /\ rHist = <<>>
    /\ rWaits = <<>>

Init == AppInit /\ budget \in Budgets /\ RetryUnused

(***************************************************************************)
(* startGeneration (sequential, retry-wrapped).                            *)
(***************************************************************************)
\* the synchronous part, up to the first await
StartGeneration(activePrompt) ==
    /\ budget.sessions > 0
    /\ Len(genRuns) < budget.runs
    /\ IF Trim(activePrompt) = <<>>
          THEN UNCHANGED <<appVars, focusVars>>
          ELSE /\ isGenerating' = TRUE
               /\ focusedArtifactId' = None
               /\ isDrawerOpen' = FALSE
               /\ projectMetadata' = None
               /\ session' = Some([id |-> nextSid, prompt |-> activePrompt,
                                   artifacts |-> InitialArtifacts])
               /\ nextSid' = nextSid + 1
               /\ genRuns' = Append(genRuns,
                     [pc |-> "manifest", prompt |-> activePrompt,
                      sid |-> nextSid, i |-> 0])
               /\ budget' = [budget EXCEPT !.sessions = @ - 1]
               /\ UNCHANGED <<isRefining, agentRuns, refineRuns, clock>>
    /\ UNCHANGED retryVars

\* mutant: a failed manifest call ends the workflow
ManifestSettlesFatal(k) ==
    /\ k \in 1..Len(genRuns)
    /\ genRuns[k].pc = "manifest"
    /\ \E res \in CallGeminiWithRetry(JsonFnValues(ManifestTexts),
                                      JsonFnErrors(ManifestTexts), EmptyObject) :
          IF res.kind = "returned"
              THEN /\ projectMetadata' =
                          Some([data |-> res.value, sid |-> genRuns[k].sid])
                   /\ genRuns' = [genRuns EXCEPT ![k].pc = "wait3000"]
                   /\ UNCHANGED isGenerating
              ELSE /\ genRuns' = RemoveAt(genRuns, k)
                   /\ isGenerating' = FALSE
                   /\ UNCHANGED projectMetadata
    /\ UNCHANGED <<session, isRefining, agentRuns, refineRuns,
                   nextSid, clock, budget>>
    /\ UNCHANGED <<retryVars, focusVars>>

\* generateProjectManifest settles: setProjectMetadata(data), or the error
\* is logged; then await wait(3000)
ManifestSettles(k) ==
    /\ k \in 1..Len(genRuns)
    /\ genRuns[k].pc = "manifest"
    /\ \E res \in CallGeminiWithRetry(JsonFnValues(ManifestTexts),
                                      JsonFnErrors(ManifestTexts), EmptyObject) :
          projectMetadata' =
              IF res.kind = "returned"
                  THEN Some([data |-> res.value, sid |-> genRuns[k].sid])
                  ELSE projectMetadata
    /\ genRuns' = [genRuns EXCEPT ![k].pc = "wait3000"]
    /\ UNCHANGED <<session, isGenerating, isRefining, agentRuns, refineRuns,
                   nextSid, clock, budget>>
    /\ UNCHANGED <<retryVars, focusVars>>

\* wait(3000) elapses: the loop is entered and the call for artifact 0 issued
ManifestCooldownElapses(k) ==
    /\ k \in 1..Len(genRuns)
    /\ genRuns[k].pc = "wait3000"
    /\ genRuns' = [genRuns EXCEPT ![k].pc = "generate", ![k].i = 0]
    /\ UNCHANGED <<session, isGenerating, isRefining, projectMetadata,
                   agentRuns, refineRuns, nextSid, clock, budget>>
    /\ UNCHANGED <<retryVars, focusVars>>

\* return result.text || 'Error generating content'
GenerationFnValues == {OrElse(t, ErrorContent) : t \in RawTexts}

\* `Synthesized based on your goal: "${activePrompt.substring(0, 30)}..."`
SynthesizedReasoning(activePrompt) ==
    Reasoning("Synthesized based on your goal", PromptHead(activePrompt), "")

\* mutant: the update always lands on the first artifact
GenerationUpdateFirstOnly(prev, artId, content, reasoning) ==
    IF prev = None
        THEN None
        ELSE LET arts == Get(prev).artifacts
             IN  Some(WithArtifacts(Get(prev),
                    [k \in 1..Len(arts) |->
                        IF k = 1
                            THEN CompletedArtifact(arts[k], content, reasoning)
                            ELSE arts[k]]))

\* setSession(prev => ...) of the loop body, for art = initialArtifacts[i]
GenerationUpdate(prev, artId, content, reasoning) ==
    IF prev = None
        THEN None
        ELSE LET arts == Get(prev).artifacts
             IN  Some(WithArtifacts(Get(prev),
                    [k \in 1..Len(arts) |->
                        IF arts[k].id = artId
                            THEN CompletedArtifact(arts[k], content, reasoning)
                            ELSE arts[k]]))

\* mutant: a failed generation call is skipped and the loop goes on
GenerationSettlesSkipsFailure(k) ==
    /\ k \in 1..Len(genRuns)
    /\ genRuns[k].pc = "generate"
    /\ LET run == genRuns[k]
           art == InitialArtifacts[run.i + 1]
       IN  \E res \in CallGeminiWithRetry(GenerationFnValues,
                                          ApiErrorMessages, "") :
              /\ session' = IF res.kind = "returned"
                               THEN GenerationUpdate(session, art.id, res.value,
                                        SynthesizedReasoning(run.prompt))
                               ELSE session
              /\ IF run.i < Len(InitialArtifacts) - 1
                    THEN /\ genRuns' = [genRuns EXCEPT ![k].pc = "wait4000"]
                         /\ UNCHANGED isGenerating
                    ELSE /\ genRuns' = RemoveAt(genRuns, k)
                         /\ isGenerating' = FALSE
    /\ UNCHANGED <<isRefining, projectMetadata, agentRuns, refineRuns, nextSid,
                   clock, budget>>
    /\ UNCHANGED <<retryVars, focusVars>>

\* mutant: the next call is issued at once, without the cooldown
GenerationSettlesNoCooldown(k) ==
    /\ k \in 1..Len(genRuns)
    /\ genRuns[k].pc = "generate"
    /\ LET run == genRuns[k]
           art == InitialArtifacts[run.i + 1]
       IN  \E res \in CallGeminiWithRetry(GenerationFnValues,
                                          ApiErrorMessages, "") :
              IF res.kind = "returned"
                  THEN /\ session' = GenerationUpdate(session, art.id, res.value,
                                         SynthesizedReasoning(run.prompt))
                       /\ IF run.i < Len(InitialArtifacts) - 1
                             THEN /\ genRuns' = [genRuns EXCEPT ![k].i = @ + 1]
                                  /\ UNCHANGED isGenerating
                             ELSE /\ genRuns' = RemoveAt(genRuns, k)
                                  /\ isGenerating' = FALSE
                  ELSE /\ session' = session
                       /\ genRuns' = RemoveAt(genRuns, k)
                       /\ isGenerating' = FALSE
    /\ UNCHANGED <<isRefining, projectMetadata, agentRuns, refineRuns, nextSid,
                   clock, budget>>
    /\ UNCHANGED <<retryVars, focusVars>>

\* the call for artifact i settles
GenerationSettles(k) ==
    /\ k \in 1..Len(genRuns)
    /\ genRuns[k].pc = "generate"
    /\ LET run == genRuns[k]
           art == InitialArtifacts[run.i + 1]
       IN  \E res \in CallGeminiWithRetry(GenerationFnValues,
                                          ApiErrorMessages, "") :
              IF res.kind = "returned"
                  THEN /\ session' = GenerationUpdate(session, art.id, res.value,
                                         SynthesizedReasoning(run.prompt))
                       /\ IF run.i < Len(InitialArtifacts) - 1
                             THEN \* await wait(4000)
                                  /\ genRuns' = [genRuns EXCEPT ![k].pc = "wait4000"]
                                  /\ UNCHANGED isGenerating
                             ELSE \* finally
                                  /\ genRuns' = RemoveAt(genRuns, k)
                                  /\ isGenerating' = FALSE
                  ELSE \* catch, finally
                       /\ session' = session
                       /\ genRuns' = RemoveAt(genRuns, k)
                       /\ isGenerating' = FALSE
    /\ UNCHANGED <<isRefining, projectMetadata, agentRuns, refineRuns, nextSid,
                   clock, budget>>
    /\ UNCHANGED <<retryVars, focusVars>>

\* wait(4000) elapses: i++, the call for the next artifact is issued
CooldownElapses(k) ==
    /\ k \in 1..Len(genRuns)
    /\ genRuns[k].pc = "wait4000"
    /\ genRuns' = [genRuns EXCEPT ![k].pc = "generate", ![k].i = @ + 1]
    /\ UNCHANGED <<session, isGenerating, isRefining, projectMetadata,
                   agentRuns, refineRuns, nextSid, clock, budget>>
    /\ UNCHANGED <<retryVars, focusVars>>

(***************************************************************************)
(* addAgent.                                                               *)
(***************************************************************************)
\* mutant: addAgent starts whatever isGenerating is
AddAgentUnguarded ==
    /\ budget.agents > 0
    /\ IF session = None
          THEN UNCHANGED <<appVars, focusVars>>
          ELSE /\ isGenerating' = TRUE
               /\ agentRuns' = Append(agentRuns,
                     [pc |-> "role", prompt |-> Get(session).prompt,
                      newId |-> 0, title |-> None])
               /\ budget' = [budget EXCEPT !.agents = @ - 1]
               /\ UNCHANGED <<session, isRefining, projectMetadata, genRuns,
                              refineRuns, nextSid, clock>>
    /\ UNCHANGED <<retryVars, focusVars>>

\* the synchronous part; the closure keeps the session it was rendered with
AddAgent ==
    /\ budget.agents > 0
    /\ IF session = None \/ isGenerating
          THEN UNCHANGED appVars
          ELSE /\ isGenerating' = TRUE
               /\ agentRuns' = Append(agentRuns,
                     [pc |-> "role", prompt |-> Get(session).prompt,
                      newId |-> 0, title |-> None])
               /\ budget' = [budget EXCEPT !.agents = @ - 1]
               /\ UNCHANGED <<session, isRefining, projectMetadata, genRuns,
                              refineRuns, nextSid, clock>>
    /\ UNCHANGED <<retryVars, focusVars>>

\* const newAgent: Artifact = { id: newId, title: roleDecision.title ||
\*   'Module Expansion', type: roleDecision.type || 'architecture', ... }
NewAgent(newId, roleDecision) ==
    NewArtifact(newId,
                OptOrElse(roleDecision.title, "Module Expansion"),
                OptOrElse(roleDecision.type, "architecture"),
                Reasoning("Onboarding", <<>>,
                          OptOrElse(roleDecision.title, "new agent")))

\* phase 1 settles: the new agent is appended and wait(3000) starts, or the
\* error is caught
RoleDecisionSettles(k) ==
    /\ k \in 1..Len(agentRuns)
    /\ agentRuns[k].pc = "role"
    /\ \E res \in CallGeminiWithRetry(JsonFnValues(RoleTexts),
                                      JsonFnErrors(RoleTexts), EmptyObject) :
          IF res.kind = "returned"
              THEN \E now \in {t \in {clock, clock + 1} : t <= LastClockReading} :
                      /\ clock' = now
                      /\ session' = WithNewAgent(session, NewAgent(now, res.value))
                      /\ agentRuns' = [agentRuns EXCEPT
                                         ![k].pc = "wait3000",
                                         ![k].newId = now,
                                         ![k].title = res.value.title]
                      /\ UNCHANGED isGenerating
              ELSE \* catch, finally
                   /\ agentRuns' = RemoveAt(agentRuns, k)
                   /\ isGenerating' = FALSE
                   /\ UNCHANGED <<session, clock>>
    /\ UNCHANGED <<isRefining, projectMetadata, genRuns, refineRuns, nextSid,
                   budget>>
    /\ UNCHANGED <<retryVars, focusVars>>

\* wait(3000) elapses: the phase 2 call is issued
AgentCooldownElapses(k) ==
    /\ k \in 1..Len(agentRuns)
    /\ agentRuns[k].pc = "wait3000"
    /\ agentRuns' = [agentRuns EXCEPT ![k].pc = "content"]
    /\ UNCHANGED <<session, isGenerating, isRefining, projectMetadata, genRuns,
                   refineRuns, nextSid, clock, budget>>
    /\ UNCHANGED <<retryVars, focusVars>>

\* return result.text || ''
AgentFnValues == {OrElse(t, "") : t \in RawTexts}

\* `Expansion module synthesized by ${roleDecision.title}.`
ExpansionReasoning(title) ==
    Reasoning("Expansion module synthesized by", <<>>,
              IF IsSome(title) THEN Get(title) ELSE "undefined")

\* mutant: phase 2 completes every artifact that is streaming
AgentUpdateAllStreaming(prev, newId, content, reasoning) ==
    IF prev = None
        THEN None
        ELSE LET arts == Get(prev).artifacts
             IN  Some(WithArtifacts(Get(prev),
                    [k \in 1..Len(arts) |->
                        IF arts[k].status = "streaming"
                            THEN CompletedArtifact(arts[k], content, reasoning)
                            ELSE arts[k]]))

\* setSession(prev => ...) of phase 2
AgentUpdate(prev, newId, content, reasoning) ==
    IF prev = None
        THEN None
        ELSE LET arts == Get(prev).artifacts
             IN  Some(WithArtifacts(Get(prev),
                    [k \in 1..Len(arts) |->
                        IF arts[k].id = newId
                            THEN CompletedArtifact(arts[k], content, reasoning)
                            ELSE arts[k]]))

\* mutant: phase 2 ends without resetting isGenerating
AgentContentSettlesNoReset(k) ==
    /\ k \in 1..Len(agentRuns)
    /\ agentRuns[k].pc = "content"
    /\ \E res \in CallGeminiWithRetry(AgentFnValues, ApiErrorMessages, "") :
          session' = IF res.kind = "returned"
                         THEN AgentUpdate(session, agentRuns[k].newId, res.value,
                                          ExpansionReasoning(agentRuns[k].title))
                         ELSE session
    /\ agentRuns' = RemoveAt(agentRuns, k)
    /\ UNCHANGED <<isGenerating, isRefining, projectMetadata, genRuns,
                   refineRuns, nextSid, clock, budget>>
    /\ UNCHANGED <<retryVars, focusVars>>

\* phase 2 settles
AgentContentSettles(k) ==
    /\ k \in 1..Len(agentRuns)
    /\ agentRuns[k].pc = "content"
    /\ \E res \in CallGeminiWithRetry(AgentFnValues, ApiErrorMessages, "") :
          session' = IF res.kind = "returned"
                         THEN AgentUpdate(session, agentRuns[k].newId, res.value,
                                          ExpansionReasoning(agentRuns[k].title))
                         ELSE session
    /\ agentRuns' = RemoveAt(agentRuns, k)
    /\ isGenerating' = FALSE
    /\ UNCHANGED <<isRefining, projectMetadata, genRuns, refineRuns, nextSid,
                   clock, budget>>
    /\ UNCHANGED <<retryVars, focusVars>>

(***************************************************************************)
(* refineArtifact.                                                         *)
(***************************************************************************)
\* setSession(prev => ...) before the call
RefineStartUpdate(prev, id) ==
    IF prev = None
        THEN None
        ELSE LET arts == Get(prev).artifacts
             IN  Some(WithArtifacts(Get(prev),
                    [k \in 1..Len(arts) |->
                        IF arts[k].id = id
                            THEN RecalibratingArtifact(arts[k])
                            ELSE arts[k]]))

\* mutant: no isRefining guard
RefineArtifactUnguarded(id) ==
    /\ budget.intents > 0
    /\ IF session = None
          THEN UNCHANGED appVars
          ELSE LET target == FindArtifact(Get(session), id)
               IN  /\ isRefining' = TRUE
                   /\ IF target = None
                         THEN UNCHANGED <<session, refineRuns>>
                         ELSE /\ Len(VariationsOf(Get(target))) < MaxVariations
                              /\ session' = RefineStartUpdate(session, id)
                              /\ refineRuns' = Append(refineRuns,
                                    [id |-> id,
                                     targetContent |-> Get(target).content])
                   /\ budget' = [budget EXCEPT !.intents = @ - 1]
                   /\ UNCHANGED <<isGenerating, projectMetadata, genRuns,
                                  agentRuns, nextSid, clock>>
    /\ UNCHANGED <<retryVars, focusVars>>

\* the synchronous part
RefineArtifact(id) ==
    /\ budget.intents > 0
    /\ IF session = None \/ isRefining
          THEN UNCHANGED appVars
          ELSE LET target == FindArtifact(Get(session), id)
               IN  /\ isRefining' = TRUE
                   /\ IF target = None
                         THEN UNCHANGED <<session, refineRuns>>
                         ELSE /\ Len(VariationsOf(Get(target))) < MaxVariations
                              /\ session' = RefineStartUpdate(session, id)
                              /\ refineRuns' = Append(refineRuns,
                                    [id |-> id,
                                     targetContent |-> Get(target).content])
                   /\ budget' = [budget EXCEPT !.intents = @ - 1]
                   /\ UNCHANGED <<isGenerating, projectMetadata, genRuns,
                                  agentRuns, nextSid, clock>>
    /\ UNCHANGED <<retryVars, focusVars>>

\* return result.text || target.content
RefineFnValues(targetContent) == {OrElse(t, targetContent) : t \in RawTexts}

\* mutant: the refined text is stored even when the artifact is gone
RefineUpdateUpsert(prev, id, updatedContent) ==
    IF prev = None
        THEN None
        ELSE LET arts == Get(prev).artifacts
             IN  IF \E k \in 1..Len(arts) : arts[k].id = id
                    THEN Some(WithArtifacts(Get(prev),
                            [k \in 1..Len(arts) |->
                                IF arts[k].id = id
                                    THEN RefinedArtifact(arts[k], updatedContent)
                                    ELSE arts[k]]))
                    ELSE Some(WithArtifacts(Get(prev),
                            Append(arts,
                                   RefinedArtifact(NewArtifact(id, "", "logic", None),
                                                   updatedContent))))

\* setSession(prev => ...) on success
RefineUpdate(prev, id, updatedContent) ==
    IF prev = None
        THEN None
        ELSE LET arts == Get(prev).artifacts
             IN  Some(WithArtifacts(Get(prev),
                    [k \in 1..Len(arts) |->
                        IF arts[k].id = id
                            THEN RefinedArtifact(arts[k], updatedContent)
                            ELSE arts[k]]))

\* the call settles
RefineSettles(k) ==
    /\ k \in 1..Len(refineRuns)
    /\ \E res \in CallGeminiWithRetry(RefineFnValues(refineRuns[k].targetContent),
                                      ApiErrorMessages, "") :
          session' = IF res.kind = "returned"
                         THEN RefineUpdate(session, refineRuns[k].id, res.value)
                         ELSE session
    /\ refineRuns' = RemoveAt(refineRuns, k)
    /\ isRefining' = FALSE
    /\ UNCHANGED <<isGenerating, projectMetadata, genRuns, agentRuns, nextSid,
                   clock, budget>>
    /\ UNCHANGED <<retryVars, focusVars>>

(***************************************************************************)
(* switchVariation, onRemove, New Project.                                 *)
(***************************************************************************)
\* the indices switchVariation is called with
SwitchIndices == (0 - 1)..MaxVariations

SwitchUpdate(prev, id, index) ==
    IF prev = None
        THEN None
        ELSE LET arts == Get(prev).artifacts
             IN  Some(WithArtifacts(Get(prev),
                    [k \in 1..Len(arts) |->
                        IF arts[k].id = id
                            THEN SwitchedArtifact(arts[k], index)
                            ELSE arts[k]]))

SwitchVariation(id, index) ==
    /\ budget.intents > 0
    /\ session' = SwitchUpdate(session, id, index)
    /\ budget' = [budget EXCEPT !.intents = @ - 1]
    /\ UNCHANGED <<isGenerating, isRefining, projectMetadata, genRuns,
                   agentRuns, refineRuns, nextSid, clock>>
    /\ UNCHANGED <<retryVars, focusVars>>

RemoveArtifact(id) ==
    /\ budget.intents > 0
    /\ session' = WithoutArtifact(session, id)
    /\ budget' = [budget EXCEPT !.intents = @ - 1]
    /\ UNCHANGED <<isGenerating, isRefining, projectMetadata, genRuns,
                   agentRuns, refineRuns, nextSid, clock>>
    /\ UNCHANGED <<retryVars, focusVars>>

\* onClick={() => { setSession(null); setPrompt(''); }}
NewProject ==
    /\ budget.intents > 0
    /\ session' = None
    /\ budget' = [budget EXCEPT !.intents = @ - 1]
    /\ UNCHANGED <<isGenerating, isRefining, projectMetadata, genRuns,
                   agentRuns, refineRuns, nextSid, clock>>
    /\ UNCHANGED <<retryVars, focusVars>>

Next ==
    \/ \E p \in PromptInputs : StartGeneration(p)
    \/ \E k \in 1..MaxSessions : ManifestSettles(k)
    \/ \E k \in 1..MaxSessions : ManifestCooldownElapses(k)
    \/ \E k \in 1..MaxSessions : GenerationSettles(k)
    \/ \E k \in 1..MaxSessions : CooldownElapses(k)
    \/ AddAgent
    \/ \E k \in 1..MaxAgents : RoleDecisionSettles(k)
    \/ \E k \in 1..MaxAgents : AgentCooldownElapses(k)
    \/ \E k \in 1..MaxAgents : AgentContentSettles(k)
    \/ \E id \in ArtifactIds : RefineArtifact(id)
    \/ \E k \in 1..MaxIntents : RefineSettles(k)
    \/ \E id \in ArtifactIds, index \in SwitchIndices : SwitchVariation(id, index)
    \/ \E id \in ArtifactIds : RemoveArtifact(id)
    \/ NewProject

Spec == Init /\ [][Next]_vars

\* in SpecRetry the App is idle
AppUnused == AppInit /\ budget = [sessions |-> 0, runs |-> 0, agents |-> 0,
                                  intents |-> 0]

\* a call of callGeminiWithRetry on its own
InitRetry == AppUnused /\ RetryInit

SpecRetry == InitRetry /\ [][RetryNext]_vars

(***************************************************************************)
(* Claims about callGeminiWithRetry, checked under SpecRetry.              *)
(***************************************************************************)
\* the messages that carry a rate-limit marker, by enumeration
RateLimitMessages == {MsgTooManyRequests, MsgQuota}
FailedRateLimited(out) == out.kind = "err" /\ out.message \in RateLimitMessages
FailedOtherwise(out) == out.kind = "err" /\ out.message \notin RateLimitMessages
AllRateLimited(hist) == \A j \in 1..Len(hist) : FailedRateLimited(hist[j])
RetryEnded == rPc \in {"returned", "thrown"}

\* C1: if fn fails with a rate-limit error on its first k invocations
\* (k < maxRetries) and succeeds on invocation k+1, the wrapper returns that
\* value, fn was invoked exactly k+1 times and the waits performed are
\* initialDelay*1, ..., initialDelay*k, strictly increasing; and the wrapper
\* never gives up after fewer than maxRetries rate-limit failures.
C1_RetryUntilSuccess ==
    /\ \A k \in 0..(rMaxRetries - 1) :
          ( /\ Len(rHist) = k + 1
            /\ AllRateLimited(SubSeq(rHist, 1, k))
            /\ rHist[k + 1].kind = "ok" )
          => /\ rPc = "returned"
             /\ rResult = Some(rHist[k + 1].value)
             /\ rCalls = k + 1
             /\ rWaits = [j \in 1..k |-> rInitialDelay * j]
             /\ \A j \in 1..(k - 1) : rWaits[j] < rWaits[j + 1]
    /\ (rPc = "returned") =>
          /\ rCalls >= 1
          /\ rHist[rCalls].kind = "ok"
          /\ AllRateLimited(SubSeq(rHist, 1, rCalls - 1))
    /\ (rPc = "thrown" /\ AllRateLimited(rHist)) => rCalls >= rMaxRetries

\* C1 witness: maxRetries = 3, two rate-limit failures, then success
C1_Witness ==
    /\ rPc = "returned"
    /\ rMaxRetries = DefaultMaxRetries
    /\ rInitialDelay = DefaultInitialDelay
    /\ rCalls = 3
    /\ FailedRateLimited(rHist[1]) /\ FailedRateLimited(rHist[2])
    /\ rWaits = <<3000, 6000>>

\* C2: an invocation that fails with an error carrying no rate-limit marker
\* is the last one: no wait follows it, the wrapper has thrown that very
\* error, and when it is the first invocation fn was invoked exactly once.
C2_OtherErrorPropagates ==
    \A n \in 1..Len(rHist) :
        FailedOtherwise(rHist[n])
        => /\ n = rCalls
           /\ rPc = "thrown"
           /\ rResult = Some(rHist[n])
           /\ Len(rWaits) = n - 1

\* C2 witness: a non-rate-limit error on the first attempt
C2_Witness ==
    /\ rPc = "thrown"
    /\ rCalls = 1
    /\ FailedOtherwise(rHist[1])
    /\ rResult = Some(rHist[1])
    /\ rWaits = <<>>

\* C3: fn is never invoked more than maxRetries times; after maxRetries
\* consecutive rate-limit failures fn is not invoked again and the wrapper
\* throws the error raised by the last invocation.
C3_BoundedRetries ==
    /\ rCalls <= rMaxRetries
    /\ (rCalls = rMaxRetries /\ rMaxRetries > 0 /\ AllRateLimited(rHist))
          => /\ rPc \in {"waiting", "thrown"}
             /\ rPc = "thrown" => rResult = Some(rHist[rMaxRetries])
    /\ (rPc = "thrown" /\ rCalls > 0 /\ AllRateLimited(rHist))
          => rCalls = rMaxRetries

\* C3 witness: three rate-limit failures, the last one with another message
\* than the first, and the last one is thrown
C3_Witness ==
    /\ rPc = "thrown"
    /\ rMaxRetries = 3
    /\ rCalls = 3
    /\ AllRateLimited(rHist)
    /\ rHist[1].message # rHist[3].message
    /\ rResult = Some(rHist[3])

\* C4 (as claimed): when a call of the wrapper has ended, the number of
\* waits performed is the number of invocations of fn minus one, so every
\* wait was followed by a further invocation.
C4_WaitsAreCallsMinusOne ==
    (RetryEnded /\ rCalls >= 1) => Len(rWaits) = rCalls - 1

(***************************************************************************)
(* Claims about the session's artifacts, checked under Spec.               *)
(***************************************************************************)
ArtifactsOf(s) == IF s = None THEN <<>> ELSE Get(s).artifacts
InRange(a, index) == index >= 0 /\ index < Len(VariationsOf(a))
IsPrefix(u, v) == Len(u) <= Len(v) /\ SubSeq(v, 1, Len(u)) = u
\* content = variations[currentVariationIndex]
ContentIsCurrentVariation(a) ==
    /\ IsSome(a.currentVariationIndex)
    /\ InRange(a, Get(a.currentVariationIndex))
    /\ a.content = VariationsOf(a)[Get(a.currentVariationIndex) + 1]

\* C5 (as claimed): in every reachable state every artifact with a non-empty
\* variations sequence has 0 <= currentVariationIndex < variations.length.
C5_IndexWithinBounds ==
    \A j \in 1..Len(ArtifactsOf(session)) :
        LET a == ArtifactsOf(session)[j]
        IN  VariationsOf(a) # <<>>
            => /\ IsSome(a.currentVariationIndex)
               /\ InRange(a, Get(a.currentVariationIndex))

\* C6 (as claimed): a switchVariation(id, idx) step with idx in range for an
\* artifact leaves that artifact with content = variations[idx] and
\* currentVariationIndex = idx, whatever text is stored at idx.
C6_SwitchInRange ==
    [][\A id \in ArtifactIds, index \in SwitchIndices :
          SwitchVariation(id, index)
          => \A j \in 1..Len(ArtifactsOf(session)) :
                LET a == ArtifactsOf(session)[j]
                    b == ArtifactsOf(session')[j]
                IN  (a.id = id /\ InRange(a, index))
                    => /\ b.content = VariationsOf(a)[index + 1]
                       /\ b.currentVariationIndex = Some(index)]_vars

\* C7: a switchVariation(id, idx) step with idx out of range for the
\* artifact (negative, >= variations.length, or no variations yet) leaves
\* the artifact's content unchanged, and leaves every other artifact and the
\* order of the artifacts unchanged.
C7_SwitchOutOfRange ==
    [][\A id \in ArtifactIds, index \in SwitchIndices :
          SwitchVariation(id, index)
          => /\ Len(ArtifactsOf(session')) = Len(ArtifactsOf(session))
             /\ \A j \in 1..Len(ArtifactsOf(session)) :
                   LET a == ArtifactsOf(session)[j]
                       b == ArtifactsOf(session')[j]
                   IN  /\ b.id = a.id
                       /\ a.id # id => b = a
                       /\ (a.id = id /\ ~InRange(a, index))
                            => b.content = a.content]_vars

\* C7 witness: an artifact with text, left by an out-of-range switch (only
\* switchVariation leaves an index that names no variation), next to the
\* other artifacts
C7_Witness ==
    \E j \in 1..Len(ArtifactsOf(session)) :
        LET a == ArtifactsOf(session)[j]
        IN  /\ Len(ArtifactsOf(session)) >= 3
            /\ a.content = "t1"
            /\ VariationsOf(a) = <<"t1">>
            /\ IsSome(a.currentVariationIndex)
            /\ ~InRange(a, Get(a.currentVariationIndex))

\* C8: a refinement that succeeds on an artifact whose variations are V
\* leaves variations = V with the returned text appended (one element more),
\* currentVariationIndex = variations.length - 1, content = the returned
\* text and status = complete.
C8_RefineAppendsOne ==
    [][\A k \in 1..MaxIntents :
          (RefineSettles(k) /\ session' # session)
          => \A j \in 1..Len(ArtifactsOf(session)) :
                LET a == ArtifactsOf(session)[j]
                    b == ArtifactsOf(session')[j]
                IN  a.id = refineRuns[k].id
                    => \E text \in RefineFnValues(refineRuns[k].targetContent) :
                          /\ b.variations = Some(Append(VariationsOf(a), text))
                          /\ Len(VariationsOf(b)) = Len(VariationsOf(a)) + 1
                          /\ b.currentVariationIndex = Some(Len(VariationsOf(b)) - 1)
                          /\ b.content = text
                          /\ b.status = "complete"]_vars

\* C8 witness: [v0] has become [v0, v1] with currentVariationIndex = 1
C8_Witness ==
    \E j \in 1..Len(ArtifactsOf(session)) :
        LET a == ArtifactsOf(session)[j]
        IN  /\ Len(VariationsOf(a)) = 2
            /\ a.currentVariationIndex = Some(1)
            /\ a.content = VariationsOf(a)[2]
            /\ a.status = "complete"
            /\ refineRuns = <<>>

\* C9 (as claimed): within one session, across every step that keeps an
\* artifact in the session, the artifact's previous variations sequence is a
\* prefix of its new variations sequence.
C9_VariationsAppendOnly ==
    [][(session # None /\ session' # None /\ Get(session).id = Get(session').id)
       => \A j \in 1..Len(ArtifactsOf(session)),
             i \in 1..Len(ArtifactsOf(session')) :
             ArtifactsOf(session)[j].id = ArtifactsOf(session')[i].id
             => IsPrefix(VariationsOf(ArtifactsOf(session)[j]),
                         VariationsOf(ArtifactsOf(session')[i]))]_vars

\* the artifacts with this id satisfy content = variations[index] after a
\* step that changed the session
UpdatedArtifactConsistent(id) ==
    session' # session
    => \A j \in 1..Len(ArtifactsOf(session')) :
          ArtifactsOf(session')[j].id = id
          => ContentIsCurrentVariation(ArtifactsOf(session')[j])

\* C10: right after a successful initial per-artifact generation, a
\* successful add-agent generation or a successful refinement, the updated
\* artifact has content = variations[currentVariationIndex], for every
\* response text, the empty one included.
C10_ContentIsCurrentVariation ==
    [][/\ \A k \in 1..MaxSessions :
             GenerationSettles(k)
             => UpdatedArtifactConsistent(InitialArtifacts[genRuns[k].i + 1].id)
       /\ \A k \in 1..MaxAgents :
             AgentContentSettles(k)
             => UpdatedArtifactConsistent(agentRuns[k].newId)
       /\ \A k \in 1..MaxIntents :
             RefineSettles(k)
             => UpdatedArtifactConsistent(refineRuns[k].id)]_vars

\* C10 witness: the three updates have happened, with an empty response to
\* the add-agent call and an empty response to the initial generation
C10_Witness ==
    \E j, i, h \in 1..Len(ArtifactsOf(session)) :
        LET a == ArtifactsOf(session)[j]
            b == ArtifactsOf(session)[i]
            c == ArtifactsOf(session)[h]
        IN  /\ a.id \in FirstClockReading..LastClockReading
            /\ a.status = "complete" /\ a.content = ""
            /\ a.variations = Some(<<"">>)
            /\ b.id = 1 /\ b.status = "complete"
            /\ b.variations = Some(<<ErrorContent>>)
            /\ b.content = ErrorContent
            /\ c.id = 2 /\ Len(VariationsOf(c)) = 2
            /\ c.content = VariationsOf(c)[2]
            /\ c.currentVariationIndex = Some(1)

(***************************************************************************)
(* Claims about the workflows, checked under Spec and SpecLive.            *)
(***************************************************************************)
\* an artifact as startGeneration seeds it
IsSeeded(a) ==
    /\ a.status = "streaming"
    /\ a.content = ""
    /\ a.variations = None
    /\ a.currentVariationIndex = None
    /\ IsSome(a.reasoning)
    /\ Get(a.reasoning).text # ""

\* C11: a startGeneration step with a non-blank prompt replaces the session
\* by a new session of exactly three artifacts art-1, art-2, art-3 in that
\* order, each streaming, with empty content, no variations and a non-empty
\* provisional reasoning, and the workflow it starts is still waiting for its
\* first external call (the manifest call).
C11_SeededBeforeAnyCall ==
    [][\A p \in PromptInputs :
          (StartGeneration(p) /\ Trim(p) # <<>>)
          => /\ session' # None
             /\ session # None => Get(session').id # Get(session).id
             /\ Len(ArtifactsOf(session')) = 3
             /\ \A j \in 1..3 :
                   /\ ArtifactsOf(session')[j].id = j
                   /\ IsSeeded(ArtifactsOf(session')[j])
             /\ Len(genRuns') = Len(genRuns) + 1
             /\ genRuns'[Len(genRuns')].pc = "manifest"
             /\ genRuns'[Len(genRuns')].sid = Get(session').id]_vars

\* C11 witness: a second startGeneration has replaced an earlier session and
\* its manifest call is pending
C11_Witness ==
    /\ session # None
    /\ Get(session).id = 2
    /\ Len(ArtifactsOf(session)) = 3
    /\ \A j \in 1..3 : IsSeeded(ArtifactsOf(session)[j])
    /\ \E k \in 1..Len(genRuns) :
          genRuns[k].pc = "manifest" /\ genRuns[k].sid = 2

\* exactly one startGeneration has been issued and no other intent has acted
SoloRun ==
    budget = [sessions |-> 0, runs |-> 1,
              agents |-> MaxAgents, intents |-> MaxIntents]

IsCompletedOnce(a) ==
    /\ a.status = "complete"
    /\ Len(VariationsOf(a)) = 1
    /\ a.currentVariationIndex = Some(0)

\* C12: in a startGeneration run that no other intent interleaves with, an
\* artifact's status changes only from streaming to complete (so at most
\* once), and when the last per-artifact call succeeds (the earlier ones
\* have, or the run would have ended) the session has exactly 3 artifacts,
\* each complete with variations.length = 1 and currentVariationIndex = 0,
\* the run is over and isGenerating is false.
C12_SoloRunCompletes ==
    [][/\ SoloRun'
          => \A j \in 1..Len(ArtifactsOf(session)) :
                ArtifactsOf(session')[j].status # ArtifactsOf(session)[j].status
                => /\ ArtifactsOf(session)[j].status = "streaming"
                   /\ ArtifactsOf(session')[j].status = "complete"
       /\ \A k \in 1..MaxSessions :
             ( /\ SoloRun
               /\ GenerationSettles(k)
               /\ genRuns[k].i = Len(InitialArtifacts) - 1
               /\ session' # session )
             => /\ Len(ArtifactsOf(session')) = 3
                /\ \A j \in 1..3 : IsCompletedOnce(ArtifactsOf(session')[j])
                /\ genRuns' = <<>>
                /\ isGenerating' = FALSE]_vars

\* C12 witness: the solo run has ended with every call having succeeded
C12_Witness ==
    /\ SoloRun
    /\ genRuns = <<>>
    /\ isGenerating = FALSE
    /\ projectMetadata # None
    /\ Len(ArtifactsOf(session)) = 3
    /\ \A j \in 1..3 : IsCompletedOnce(ArtifactsOf(session)[j])

\* C13 (as claimed): when the per-artifact call of the initial workflow fails
\* terminally for an artifact that is streaming in the session (the step
\* ends the run and does not complete the artifact), the artifact's status
\* is error afterwards.
C13_FailedGenerationMarksError ==
    [][\A k \in 1..MaxSessions :
          GenerationSettles(k)
          => \A j \in 1..Len(ArtifactsOf(session)) :
                LET a == ArtifactsOf(session)[j]
                IN  ( /\ a.id = InitialArtifacts[genRuns[k].i + 1].id
                      /\ a.status = "streaming"
                      /\ session' = session )
                    => ArtifactsOf(session')[j].status = "error"]_vars

(***************************************************************************)
(* Liveness: every pending call settles and every wait elapses.  The user  *)
(* is not obliged to do anything.                                          *)
(***************************************************************************)
Fairness ==
    /\ \A k \in 1..MaxSessions :
          /\ WF_vars(ManifestSettles(k))
          /\ WF_vars(ManifestCooldownElapses(k))
          /\ WF_vars(GenerationSettles(k))
          /\ WF_vars(CooldownElapses(k))
    /\ \A k \in 1..MaxAgents :
          /\ WF_vars(RoleDecisionSettles(k))
          /\ WF_vars(AgentCooldownElapses(k))
          /\ WF_vars(AgentContentSettles(k))
    /\ \A k \in 1..MaxIntents : WF_vars(RefineSettles(k))

SpecLive == Init /\ [][Next]_vars /\ Fairness

\* the session holds a streaming artifact with this id
IsStreaming(id) ==
    \E j \in 1..Len(ArtifactsOf(session)) :
        /\ ArtifactsOf(session)[j].id = id
        /\ ArtifactsOf(session)[j].status = "streaming"

\* C14 (as claimed): an artifact that is streaming eventually is not
\* streaming any more (it has become complete or error, or has left the
\* session), whether the calls succeed or fail.
C14_StreamingEnds ==
    \A id \in ArtifactIds : IsStreaming(id) ~> ~IsStreaming(id)

\* C15 (as claimed): while a startGeneration workflow is in flight (from
\* the seeding of its session to its last update or its failure),
\* isGenerating is true.
C15_GeneratingWhileRunInFlight ==
    genRuns # <<>> => isGenerating = TRUE

NoGeneratingRun == genRuns = <<>> /\ agentRuns = <<>>

\* C16: once no startGeneration or addAgent run is in flight isGenerating is
\* false; every run in flight eventually ends and isGenerating, once true,
\* eventually is false again, whichever way the runs end.
C16_GeneratingIsReset ==
    /\ [](NoGeneratingRun => isGenerating = FALSE)
    /\ (~NoGeneratingRun) ~> NoGeneratingRun
    /\ (isGenerating = TRUE) ~> (isGenerating = FALSE)

\* C16 witness: a startGeneration run has ended by a failed call (its
\* artifacts are as seeded) and isGenerating is false again
C16_Witness ==
    /\ NoGeneratingRun
    /\ isGenerating = FALSE
    /\ nextSid > 1
    /\ Len(ArtifactsOf(session)) = 3
    /\ \A j \in 1..3 : IsSeeded(ArtifactsOf(session)[j])

\* C17 (as claimed): once no refinement is in flight isRefining is false
\* again, so no call of refineArtifact leaves isRefining true forever.
C17_RefiningIsReset ==
    refineRuns = <<>> => isRefining = FALSE

SameHistory(a, b) ==
    /\ b.content = a.content
    /\ b.variations = a.variations
    /\ b.currentVariationIndex = a.currentVariationIndex

\* C18: the start of a refinement changes no artifact's content, variations
\* or currentVariationIndex and changes no other artifact at all, and the
\* settling of its call either is the successful completion (the target's
\* variations grow by one) or changes no artifact: a failed refinement
\* leaves content, variations and currentVariationIndex as they were.
C18_FailedRefineKeepsHistory ==
    [][/\ \A id \in ArtifactIds :
             RefineArtifact(id)
             => /\ Len(ArtifactsOf(session')) = Len(ArtifactsOf(session))
                /\ \A j \in 1..Len(ArtifactsOf(session)) :
                      LET a == ArtifactsOf(session)[j]
                          b == ArtifactsOf(session')[j]
                      IN  /\ SameHistory(a, b)
                          /\ a.id # id => b = a
       /\ \A k \in 1..MaxIntents :
             RefineSettles(k)
             => /\ Len(ArtifactsOf(session')) = Len(ArtifactsOf(session))
                /\ \A j \in 1..Len(ArtifactsOf(session)) :
                      LET a == ArtifactsOf(session)[j]
                          b == ArtifactsOf(session')[j]
                      IN  \/ b = a
                          \/ /\ a.id = refineRuns[k].id
                             /\ b.status = "complete"
                             /\ Len(VariationsOf(b)) = Len(VariationsOf(a)) + 1
                             /\ IsPrefix(VariationsOf(a), VariationsOf(b))]_vars

\* C18 witness: a refinement of an artifact with one variation has failed:
\* nothing is in flight, the artifact still shows the refinement's streaming
\* update, and its content and variations are those it had
C18_Witness ==
    /\ refineRuns = <<>>
    /\ isRefining = FALSE
    /\ \E j \in 1..Len(ArtifactsOf(session)) :
          LET a == ArtifactsOf(session)[j]
          IN  /\ a.status = "streaming"
              /\ a.reasoning = Reasoning("Recalibrating projection...", <<>>, "")
              /\ a.variations = Some(<<"t1">>)
              /\ a.content = "t1"
              /\ a.currentVariationIndex = Some(0)

\* C19: at most one refinement is in flight, isRefining is true while it is,
\* and no step taken while isRefining is true starts a refinement: a
\* refineArtifact call made then issues no call and changes no state.
C19_SingleRefinementInFlight ==
    /\ [](Len(refineRuns) <= 1 /\ (refineRuns # <<>> => isRefining = TRUE))
    /\ [][/\ isRefining = TRUE => Len(refineRuns') <= Len(refineRuns)
          /\ \A id \in ArtifactIds :
                (isRefining = TRUE /\ RefineArtifact(id)) => UNCHANGED vars]_vars

\* C19 witness: a refinement is in flight and the user can issue another
\* refineArtifact call
C19_Witness ==
    /\ Len(refineRuns) = 1
    /\ isRefining = TRUE
    /\ budget.intents > 0
    /\ \E j \in 1..Len(ArtifactsOf(session)) :
          /\ ArtifactsOf(session)[j].id # refineRuns[1].id
          /\ ArtifactsOf(session)[j].status = "complete"

\* the outcomes of the role-decision call for one response text when the API
\* itself does not fail
RoleDecisionOutcomes(text) ==
    CallGeminiWithRetry(JsonFnValues({text}),
                        JsonFnErrors({text}) \ ApiErrorMessages, EmptyObject)
\* texts of the role-decision response that lack fields or are not JSON
RoleTextsDegraded == {"", "{}", "{title}", "oops"}

\* C20 (as claimed): while the role-decision call of addAgent is pending,
\* for every response text that lacks fields or is not valid JSON the call
\* returns a role decision, and the agent built from it has the title
\* 'Module Expansion' where the title is missing and the type architecture
\* where the type is missing, so that the artifact is appended and phase 2
\* runs.
C20_DegradedRoleDecision ==
    \A k \in 1..Len(agentRuns) :
        agentRuns[k].pc = "role"
        => \A text \in RoleTextsDegraded :
              \A res \in RoleDecisionOutcomes(text) :
                  /\ res.kind = "returned"
                  /\ LET agent == NewAgent(clock, res.value)
                     IN  /\ res.value.title = None
                              => agent.title = "Module Expansion"
                         /\ res.value.type = None
                              => agent.type = "architecture"

(***************************************************************************)
(* Claims about the artifact sequence, checked under Spec.                 *)
(***************************************************************************)
\* C21: the append of addAgent adds exactly one artifact at the end of the
\* sequence, streaming with empty content, while the phase-2 call is not
\* yet issued (the run waits for its cooldown), and leaves the artifacts
\* that were there unchanged and in place; the phase-2 completion changes
\* no artifact but the one appended.
C21_AddAgentFrame ==
    [][/\ \A k \in 1..MaxAgents :
             (RoleDecisionSettles(k) /\ session' # session)
             => LET old == ArtifactsOf(session)
                    new == ArtifactsOf(session')
                IN  /\ Len(new) = Len(old) + 1
                    /\ SubSeq(new, 1, Len(old)) = old
                    /\ new[Len(new)].status = "streaming"
                    /\ new[Len(new)].content = ""
                    /\ new[Len(new)].variations = None
                    /\ agentRuns'[k].pc = "wait3000"
                    /\ agentRuns'[k].newId = new[Len(new)].id
       /\ \A k \in 1..MaxAgents :
             AgentContentSettles(k)
             => /\ Len(ArtifactsOf(session')) = Len(ArtifactsOf(session))
                /\ \A j \in 1..Len(ArtifactsOf(session)) :
                      ArtifactsOf(session)[j].id # agentRuns[k].newId
                      => ArtifactsOf(session')[j] = ArtifactsOf(session)[j]]_vars

\* C21 witness: an agent was appended to three artifacts left streaming by a
\* failed generation and has been completed; the three are as they were
C21_Witness ==
    /\ Len(ArtifactsOf(session)) = 4
    /\ \A j \in 1..3 : IsSeeded(ArtifactsOf(session)[j])
    /\ ArtifactsOf(session)[4].id >= FirstClockReading
    /\ ArtifactsOf(session)[4].status = "complete"
    /\ agentRuns = <<>>

\* the number of artifacts among the first j whose id differs from id
KeptBefore(arts, j, id) == Cardinality({i \in 1..j : arts[i].id # id})

\* C22: in every reachable state and for every id, removeArtifact(id)
\* applied to the session removes exactly the artifacts with that id, keeps
\* the others unchanged and in the same relative order, changes nothing
\* else of the session, maps no session to no session, and applied a second
\* time changes nothing.
C22_RemoveIsIdempotentFilter ==
    \A id \in ArtifactIds :
        LET once == WithoutArtifact(session, id)
            old == ArtifactsOf(session)
            new == ArtifactsOf(once)
        IN  /\ (once = None) <=> (session = None)
            /\ once # None
                 => [Get(once) EXCEPT !.artifacts = old] = Get(session)
            /\ Len(new) = KeptBefore(old, Len(old), id)
            /\ \A j \in 1..Len(old) :
                  old[j].id # id => new[KeptBefore(old, j, id)] = old[j]
            /\ \A i \in 1..Len(new) : new[i].id # id
            /\ WithoutArtifact(once, id) = once
            /\ (\A j \in 1..Len(old) : old[j].id # id) => once = session

\* C22 witness: art-2 has been removed from between art-1 and art-3, which
\* are complete
C22_Witness ==
    /\ Len(ArtifactsOf(session)) = 2
    /\ ArtifactsOf(session)[1].id = 1
    /\ ArtifactsOf(session)[2].id = 3
    /\ ArtifactsOf(session)[1].status = "complete"
    /\ ArtifactsOf(session)[2].status = "complete"

\* the session holds an artifact with this id
IsPresent(id) ==
    \E j \in 1..Len(ArtifactsOf(session)) : ArtifactsOf(session)[j].id = id

\* C23: a completion (initial generation, add-agent generation, refinement)
\* that settles when the session holds no artifact with its target id, or
\* when the session is null, leaves the session exactly as it was; an
\* add-agent append on a null session leaves it null.
C23_StaleCompletionIsNoOp ==
    [][/\ \A k \in 1..MaxSessions :
             ( /\ GenerationSettles(k)
               /\ ~IsPresent(InitialArtifacts[genRuns[k].i + 1].id) )
             => session' = session
       /\ \A k \in 1..MaxAgents :
             (AgentContentSettles(k) /\ ~IsPresent(agentRuns[k].newId))
             => session' = session
       /\ \A k \in 1..MaxIntents :
             (RefineSettles(k) /\ ~IsPresent(refineRuns[k].id))
             => session' = session
       /\ \A k \in 1..MaxAgents :
             (RoleDecisionSettles(k) /\ session = None) => session' = None]_vars

\* C23 witness: the session is null while a startGeneration workflow is past
\* its first completion, the user's intents are spent and no refinement is
\* in flight
C23_Witness ==
    /\ session = None
    /\ nextSid > 1
    /\ refineRuns = <<>>
    /\ isRefining = FALSE
    /\ budget.intents = 0
    /\ \E k \in 1..Len(genRuns) : genRuns[k].pc = "wait4000"

\* C24 (as claimed): the completion of a per-artifact generation call that
\* belongs to a workflow of an earlier session changes nothing of the
\* session that has replaced it.
C24_OrphanedResultsDiscarded ==
    [][\A k \in 1..MaxSessions :
          ( /\ GenerationSettles(k)
            /\ session # None
            /\ genRuns[k].sid # Get(session).id )
          => session' = session]_vars

\* the positions in runs of the workflow started for session sid
RunsOfSession(runs, sid) == {k \in 1..Len(runs) : runs[k].sid = sid}
\* the workflow of session sid: Some(run), or None when it is not in flight
RunOfSession(runs, sid) ==
    IF RunsOfSession(runs, sid) = {}
        THEN None
        ELSE Some(runs[CHOOSE k \in RunsOfSession(runs, sid) : TRUE])
\* the artifacts with this id in s are complete
CompleteWherePresent(s, id) ==
    \A j \in 1..Len(ArtifactsOf(s)) :
        ArtifactsOf(s)[j].id = id => ArtifactsOf(s)[j].status = "complete"

\* C25: a workflow has at most one position, hence at most one per-artifact
\* call in flight; the call for the artifact at position i+1 is issued only
\* by the elapsing of the cooldown wait that followed artifact i, and that
\* wait is entered only by the step that settles the call for artifact i
\* and leaves that artifact complete.
C25_SequentialOrdering ==
    /\ [](\A sid \in 1..MaxSessions :
             Cardinality(RunsOfSession(genRuns, sid)) <= 1)
    /\ [][\A sid \in 1..MaxSessions :
             LET before == RunOfSession(genRuns, sid)
                 after == RunOfSession(genRuns', sid)
             IN  /\ ( /\ after # None /\ after # before
                      /\ Get(after).pc = "generate" /\ Get(after).i > 0 )
                    => /\ before # None
                       /\ Get(before).pc = "wait4000"
                       /\ Get(before).i = Get(after).i - 1
                 /\ ( /\ after # None /\ after # before
                      /\ Get(after).pc = "wait4000" )
                    => /\ before # None
                       /\ Get(before).pc = "generate"
                       /\ Get(before).i = Get(after).i
                       /\ CompleteWherePresent(session',
                             InitialArtifacts[Get(after).i + 1].id)]_vars

\* C25 witness: the call for the third artifact is in flight, the first two
\* artifacts are complete and the third is still as seeded
C25_Witness ==
    /\ \E k \in 1..Len(genRuns) : genRuns[k].pc = "generate" /\ genRuns[k].i = 2
    /\ Len(ArtifactsOf(session)) = 3
    /\ ArtifactsOf(session)[1].status = "complete"
    /\ ArtifactsOf(session)[2].status = "complete"
    /\ IsSeeded(ArtifactsOf(session)[3])

\* the sequence of the artifact ids of s
IdsOf(s) == [j \in 1..Len(ArtifactsOf(s)) |-> ArtifactsOf(s)[j].id]

\* C26: every step that is not a startGeneration seed, a removeArtifact or a
\* reset leaves the sequence of artifact ids unchanged, except the add-agent
\* append, which adds one id at the end; so completions, refinement steps
\* and switchVariation never reorder, drop or duplicate artifacts.
C26_OrderIsStable ==
    [][\/ \E p \in PromptInputs : StartGeneration(p)
       \/ \E id \in ArtifactIds : RemoveArtifact(id)
       \/ NewProject
       \/ IdsOf(session') = IdsOf(session)
       \/ /\ \E k \in 1..MaxAgents : RoleDecisionSettles(k)
          /\ Len(IdsOf(session')) = Len(IdsOf(session)) + 1
          /\ SubSeq(IdsOf(session'), 1, Len(IdsOf(session))) = IdsOf(session)]_vars

\* C26 witness: after completions, a refinement and an add-agent append the
\* ids are art-1, art-2, art-3 and the agent's, in that order
C26_Witness ==
    /\ Len(IdsOf(session)) = 4
    /\ SubSeq(IdsOf(session), 1, 3) = <<1, 2, 3>>
    /\ IdsOf(session)[4] >= FirstClockReading
    /\ ArtifactsOf(session)[4].status = "complete"
    /\ \E j \in 1..3 : Len(VariationsOf(ArtifactsOf(session)[j])) = 2

\* C27: whatever the outcome of the manifest call, the step that settles it
\* keeps the workflow in flight and moves it to the wait that precedes the
\* per-artifact calls, changes neither the session nor isGenerating, and
\* either stores the parsed manifest or, on failure, leaves projectMetadata
\* as it is (null in a workflow running alone).
C27_ManifestFailureNonFatal ==
    [][\A k \in 1..MaxSessions :
          ManifestSettles(k)
          => /\ genRuns' = [genRuns EXCEPT ![k].pc = "wait3000"]
             /\ session' = session
             /\ isGenerating' = isGenerating
             /\ \/ projectMetadata' = projectMetadata
                \/ /\ projectMetadata' # None
                   /\ Get(projectMetadata').sid = genRuns[k].sid
                   /\ Get(projectMetadata').data \in JsonFnValues(ManifestTexts)]_vars

\* C27 witness: in a workflow running alone the manifest call has failed
\* (projectMetadata is still null) and the call for the first artifact is in
\* flight
C27_Witness ==
    /\ SoloRun
    /\ projectMetadata = None
    /\ Len(genRuns) = 1
    /\ genRuns[1].pc = "generate"
    /\ genRuns[1].i = 0
    /\ isGenerating = TRUE

(***************************************************************************)
(* exportAllArtifacts.  A document is its text as a sequence of pieces:    *)
(* the literals of the template and the values spliced in.                 *)
(***************************************************************************)
Heading == "## "
ParallelHeading == "## ARTIFACT: "

\* pieces.join(separator)
RECURSIVE Join(_, _)
Join(pieces, separator) ==
    IF pieces = <<>>
        THEN <<>>
        ELSE IF Len(pieces) = 1
                THEN pieces[1]
                ELSE pieces[1] \o <<separator>> \o Join(Tail(pieces), separator)

\* a => `## ${a.title}\n\n${a.content}\n\n`
ExportSection(a) == <<Heading, a.title, "\n\n", a.content, "\n\n">>

\* mutant: only the complete artifacts are exported
ExportAllArtifactsCompleteOnly(s) ==
    IF s = None
        THEN None
        ELSE Some(Join([j \in 1..Len(SelectSeq(Get(s).artifacts,
                                               LAMBDA a : a.status = "complete")) |->
                          ExportSection(SelectSeq(Get(s).artifacts,
                                            LAMBDA a : a.status = "complete")[j])],
                       "\n"))

\* exportAllArtifacts: None when it returns before building a document
ExportAllArtifacts(s) ==
    IF s = None
        THEN None
        ELSE Some(Join([j \in 1..Len(Get(s).artifacts) |->
                          ExportSection(Get(s).artifacts[j])], "\n"))

\* art => `## ARTIFACT: ${art.title}\n${art.content}\n\n`
ParallelExportSection(art) ==
    <<ParallelHeading, art.title, "\n", art.content, "\n\n">>

\* fullExport += ... for each artifact, in forEach order
RECURSIVE ParallelExportBody(_)
ParallelExportBody(arts) ==
    IF arts = <<>>
        THEN <<>>
        ELSE ParallelExportSection(Head(arts)) \o ParallelExportBody(Tail(arts))

\* exportAllArtifacts of the parallel variant: the header line with the
\* project title and the prompt, then the sections
ExportAllArtifactsParallel(s, metadata) ==
    IF s = None
        THEN None
        ELSE Some([title |-> IF metadata # None /\ IsSome(Get(metadata).data.title)
                                THEN OrElse(Get(Get(metadata).data.title),
                                            "AI Generated Project")
                                ELSE "AI Generated Project",
                   prompt |-> Get(s).prompt,
                   body |-> ParallelExportBody(Get(s).artifacts)])

\* the positions of the pieces of doc that are the heading literal
HeadingPositions(doc, heading) == {p \in 1..Len(doc) : doc[p] = heading}
\* the position of the i-th heading
NthHeading(doc, heading, i) ==
    CHOOSE p \in HeadingPositions(doc, heading) :
        Cardinality({q \in HeadingPositions(doc, heading) : q <= p}) = i
\* doc is made of exactly one section per artifact, in order, the section
\* holding the title and the content at the given offsets from its heading
HasOneSectionPerArtifact(doc, heading, arts) ==
    /\ Cardinality(HeadingPositions(doc, heading)) = Len(arts)
    /\ Len(doc) >= 5 * Len(arts)
    /\ \A i \in 1..Len(arts) :
          LET p == NthHeading(doc, heading, i)
          IN  /\ doc[p + 1] = arts[i].title
              /\ doc[p + 3] = arts[i].content
              /\ \A q \in HeadingPositions(doc, heading) : q <= p \/ q >= p + 5

\* C29: in every reachable state, exportAllArtifacts builds nothing when
\* there is no session, and otherwise a document of exactly one section per
\* artifact, section i holding the title and the current content of the
\* i-th artifact, in artifact order; this holds for the export of both
\* variants of the App.
C29_ExportOneSectionPerArtifact ==
    /\ (session = None)
         => /\ ExportAllArtifacts(session) = None
            /\ ExportAllArtifactsParallel(session, projectMetadata) = None
    /\ (session # None)
         => /\ ExportAllArtifacts(session) # None
            /\ HasOneSectionPerArtifact(Get(ExportAllArtifacts(session)),
                                        Heading, ArtifactsOf(session))
            /\ ExportAllArtifactsParallel(session, projectMetadata) # None
            /\ HasOneSectionPerArtifact(
                  Get(ExportAllArtifactsParallel(session, projectMetadata)).body,
                  ParallelHeading, ArtifactsOf(session))

\* C29 witness: a session of four artifacts, some complete, one with empty
\* content, one still streaming, whose export has four sections
C29_Witness ==
    /\ Len(ArtifactsOf(session)) = 4
    /\ ArtifactsOf(session)[1].status = "complete"
    /\ ArtifactsOf(session)[3].status = "streaming"
    /\ ArtifactsOf(session)[4].status = "complete"
    /\ ArtifactsOf(session)[4].content = ""
    /\ Cardinality(HeadingPositions(Get(ExportAllArtifacts(session)), Heading)) = 4


(***************************************************************************)
(* The parallel fan-out variant of the App component: no retry wrapper, no *)
(* cooldown, the three artifact tasks started together and joined by       *)
(* Promise.all.                                                            *)
(***************************************************************************)
\* bounds of SpecParallel
MaxParallelSessions == 1
MaxParallelAgents == 2
MaxParallelIntents == 1

ParallelLastClockReading == FirstClockReading + MaxParallelAgents - 1
ParallelArtifactIds == {1, 2, 3} \cup (FirstClockReading..ParallelLastClockReading)

\* await ai.models.generateContent(...), called directly: one invocation
\* that resolves with one of okValues or rejects with one of errMessages
GenerateContent(okValues, errMessages, dummy) ==
    {Returned(v, dummy) : v \in okValues}
      \cup {Thrown(Some(e), dummy) : e \in errMessages}

\* const initialArtifacts: Artifact[] = [...]
ParallelInitialArtifacts ==
    << NewArtifact(1, "Technical Architecture", "architecture",
                   Reasoning("Analyzing requirements...", <<>>, "")),
       NewArtifact(2, "User Interface Concept", "ui",
                   Reasoning("Designing layout...", <<>>, "")),
       NewArtifact(3, "Data Flow & Logic", "logic",
                   Reasoning("Modeling flows...", <<>>, "")) >>

\* initialArtifacts.map(async (art) => ...): each task runs to its first await
GenerationTasks(activePrompt, sid) ==
    [j \in 1..Len(ParallelInitialArtifacts) |->
        [pc |-> "content", prompt |-> activePrompt, sid |-> sid,
         artId |-> ParallelInitialArtifacts[j].id, text |-> ""]]

\* a settled task keeps its promise's state until the next call of
\* startGeneration, which has no reference to it
Settled(run) == run.pc \in {"fulfilled", "rejected"}
DropSettled(runs) ==
    LET Live(run) == ~Settled(run)
    IN  SelectSeq(runs, Live)

\* the synchronous part: the manifest call is started and not awaited, the
\* three tasks are started, then await Promise.all(generationTasks)
ParallelStartGeneration(activePrompt) ==
    /\ budget.sessions > 0
    /\ IF Trim(activePrompt) = <<>>
          THEN UNCHANGED <<appVars, focusVars>>
          ELSE /\ isGenerating' = TRUE
               /\ focusedArtifactId' = None
               /\ isDrawerOpen' = FALSE
               /\ projectMetadata' = None
               /\ session' = Some([id |-> nextSid, prompt |-> activePrompt,
                                   artifacts |-> ParallelInitialArtifacts])
               /\ nextSid' = nextSid + 1
               /\ genRuns' = DropSettled(genRuns)
                     \o <<[pc |-> "manifest", prompt |-> activePrompt,
                           sid |-> nextSid, artId |-> 0, text |-> ""]>>
                     \o GenerationTasks(activePrompt, nextSid)
               /\ budget' = [budget EXCEPT !.sessions = @ - 1]
               /\ UNCHANGED <<isRefining, agentRuns, refineRuns, clock>>
    /\ UNCHANGED retryVars

\* generateProjectManifest settles: setProjectMetadata(data), or the error
\* is logged
ParallelManifestSettles(k) ==
    /\ k \in 1..Len(genRuns)
    /\ genRuns[k].pc = "manifest"
    /\ \E res \in GenerateContent(JsonFnValues(ManifestTexts \cup {""}),
                                  JsonFnErrors(ManifestTexts \cup {""}),
                                  EmptyObject) :
          projectMetadata' =
              IF res.kind = "returned"
                  THEN Some([data |-> res.value, sid |-> genRuns[k].sid])
                  ELSE projectMetadata
    /\ genRuns' = RemoveAt(genRuns, k)
    /\ UNCHANGED <<session, isGenerating, isRefining, agentRuns, refineRuns,
                   nextSid, clock, budget>>
    /\ UNCHANGED <<retryVars, focusVars>>

\* the tasks of one startGeneration call
IsTaskOf(run, sid) == run.pc # "manifest" /\ run.sid = sid
TasksOf(runs, sid) == {j \in 1..Len(runs) : IsTaskOf(runs[j], sid)}

\* Promise.all(generationTasks) is pending while no task has rejected and
\* some task has not fulfilled
JoinPending(runs, sid) ==
    /\ \A j \in TasksOf(runs, sid) : runs[j].pc # "rejected"
    /\ \E j \in TasksOf(runs, sid) : runs[j].pc # "fulfilled"

\* a task settles: Promise.all settles with the first rejection or with the
\* last fulfilment, and then `finally { setIsGenerating(false) }` runs
AfterTaskSettles(k, pc) ==
    LET settled == [genRuns EXCEPT ![k].pc = pc]
        sid == genRuns[k].sid
    IN  /\ genRuns' = settled
        /\ isGenerating' =
              IF JoinPending(genRuns, sid) /\ ~JoinPending(settled, sid)
                  THEN FALSE
                  ELSE isGenerating

\* the first await of a task settles: the content call
ParallelContentSettles(k) ==
    /\ k \in 1..Len(genRuns)
    /\ genRuns[k].pc = "content"
    /\ \E res \in GenerateContent(RawTexts, ApiErrorMessages, "") :
          IF res.kind = "returned"
              THEN /\ genRuns' = [genRuns EXCEPT ![k].pc = "reasoning",
                                                 ![k].text = res.value]
                   /\ UNCHANGED isGenerating
              ELSE AfterTaskSettles(k, "rejected")
    /\ UNCHANGED <<session, isRefining, projectMetadata, agentRuns, refineRuns,
                   nextSid, clock, budget>>
    /\ UNCHANGED <<retryVars, focusVars>>

\* { ...a, content: result.text || 'Error generating content',
\*   status: 'complete', reasoning: reasoningResult.text || '',
\*   variations: [result.text || ''], currentVariationIndex: 0 }
ParallelCompletedArtifact(a, resultText, reasoningText) ==
    [a EXCEPT !.content = OrElse(resultText, ErrorContent),
              !.status = "complete",
              !.reasoning = Reasoning(OrElse(reasoningText, ""), <<>>, ""),
              !.variations = Some(<<OrElse(resultText, "")>>),
              !.currentVariationIndex = Some(0)]

\* mutant: the completion is written over the artifacts the call started
\* with
ParallelGenerationUpdateOverSnapshot(prev, artId, resultText, reasoningText) ==
    IF prev = None
        THEN None
        ELSE LET arts == ParallelInitialArtifacts
             IN  Some(WithArtifacts(Get(prev),
                    [j \in 1..Len(arts) |->
                        IF arts[j].id = artId
                            THEN ParallelCompletedArtifact(arts[j], resultText,
                                                           reasoningText)
                            ELSE arts[j]]))

\* setSession(prev => ...) of a task
ParallelGenerationUpdate(prev, artId, resultText, reasoningText) ==
    IF prev = None
        THEN None
        ELSE LET arts == Get(prev).artifacts
             IN  Some(WithArtifacts(Get(prev),
                    [j \in 1..Len(arts) |->
                        IF arts[j].id = artId
                            THEN ParallelCompletedArtifact(arts[j], resultText,
                                                           reasoningText)
                            ELSE arts[j]]))

\* the response texts of the reasoning call
ReasoningTexts == {"r1"}

\* the second await of a task settles: the reasoning call, then the update
ParallelReasoningSettles(k) ==
    /\ k \in 1..Len(genRuns)
    /\ genRuns[k].pc = "reasoning"
    /\ \E res \in GenerateContent(ReasoningTexts, ApiErrorMessages, "") :
          IF res.kind = "returned"
              THEN /\ session' = ParallelGenerationUpdate(session,
                                    genRuns[k].artId, genRuns[k].text, res.value)
                   /\ AfterTaskSettles(k, "fulfilled")
              ELSE /\ AfterTaskSettles(k, "rejected")
                   /\ UNCHANGED session
    /\ UNCHANGED <<isRefining, projectMetadata, agentRuns, refineRuns,
                   nextSid, clock, budget>>
    /\ UNCHANGED <<retryVars, focusVars>>

\* const newAgent: Artifact = { id: newId, title: 'Strategic Expansion', ... }
ParallelNewAgent(newId) ==
    NewArtifact(newId, "Strategic Expansion", "logic",
                Reasoning("Identifying new opportunities...", <<>>, ""))

\* addAgent up to its await: const newId = `art-${Date.now()}`, the append
ParallelAddAgent ==
    /\ budget.agents > 0
    /\ IF session = None
          THEN UNCHANGED appVars
          ELSE \E now \in {t \in {clock, clock + 1} :
                              t <= ParallelLastClockReading} :
                  /\ clock' = now
                  /\ session' = WithNewAgent(session, ParallelNewAgent(now))
                  /\ agentRuns' = Append(agentRuns,
                        [pc |-> "content", prompt |-> Get(session).prompt,
                         newId |-> now, title |-> None])
                  /\ budget' = [budget EXCEPT !.agents = @ - 1]
                  /\ UNCHANGED <<isGenerating, isRefining, projectMetadata,
                                 genRuns, refineRuns, nextSid>>
    /\ UNCHANGED <<retryVars, focusVars>>

\* { ...a, content: result.text || '', status: 'complete',
\*   variations: [result.text || ''], currentVariationIndex: 0 }
ParallelCompletedAgent(a, resultText) ==
    [a EXCEPT !.content = OrElse(resultText, ""),
              !.status = "complete",
              !.variations = Some(<<OrElse(resultText, "")>>),
              !.currentVariationIndex = Some(0)]

\* setSession(prev => ...) of addAgent
ParallelAgentUpdate(prev, newId, resultText) ==
    IF prev = None
        THEN None
        ELSE LET arts == Get(prev).artifacts
             IN  Some(WithArtifacts(Get(prev),
                    [j \in 1..Len(arts) |->
                        IF arts[j].id = newId
                            THEN ParallelCompletedAgent(arts[j], resultText)
                            ELSE arts[j]]))

\* the call of addAgent settles: the update, or the error is logged
ParallelAgentSettles(k) ==
    /\ k \in 1..Len(agentRuns)
    /\ agentRuns[k].pc = "content"
    /\ \E res \in GenerateContent(RawTexts, ApiErrorMessages, "") :
          session' = IF res.kind = "returned"
                         THEN ParallelAgentUpdate(session, agentRuns[k].newId,
                                                  res.value)
                         ELSE session
    /\ agentRuns' = RemoveAt(agentRuns, k)
    /\ UNCHANGED <<isGenerating, isRefining, projectMetadata, genRuns,
                   refineRuns, nextSid, clock, budget>>
    /\ UNCHANGED <<retryVars, focusVars>>

\* onRemove={() => setSession(prev => prev ? { ...prev, artifacts:
\*   prev.artifacts.filter(a => a.id !== artifact.id) } : null)}
ParallelRemoveArtifact(id) ==
    /\ budget.intents > 0
    /\ session' = WithoutArtifact(session, id)
    /\ budget' = [budget EXCEPT !.intents = @ - 1]
    /\ UNCHANGED <<isGenerating, isRefining, projectMetadata, genRuns,
                   agentRuns, refineRuns, nextSid, clock>>
    /\ UNCHANGED <<retryVars, focusVars>>

\* what the behaviours explored may start
ParallelBudgets ==
    { [sessions |-> MaxParallelSessions, runs |-> MaxParallelSessions,
       agents |-> MaxParallelAgents, intents |-> MaxParallelIntents] }

InitParallel == AppInit /\ budget \in ParallelBudgets /\ RetryUnused

MaxParallelRuns == 4 * MaxParallelSessions

ParallelNext ==
    \/ \E p \in PromptInputs : ParallelStartGeneration(p)
    \/ \E k \in 1..MaxParallelRuns : ParallelManifestSettles(k)
    \/ \E k \in 1..MaxParallelRuns : ParallelContentSettles(k)
    \/ \E k \in 1..MaxParallelRuns : ParallelReasoningSettles(k)
    \/ ParallelAddAgent
    \/ \E k \in 1..MaxParallelAgents : ParallelAgentSettles(k)
    \/ \E id \in ParallelArtifactIds : ParallelRemoveArtifact(id)

SpecParallel == InitParallel /\ [][ParallelNext]_vars


(***************************************************************************)
(* Claims about the parallel variant, checked under SpecParallel.          *)
(***************************************************************************)
\* C28 (as claimed): in every reachable state the artifacts of the current
\* session have pairwise distinct ids, also when two addAgent runs read the
\* same value of the clock.
C28_DistinctIds ==
    \A i, j \in 1..Len(ArtifactsOf(session)) :
        i # j => ArtifactsOf(session)[i].id # ArtifactsOf(session)[j].id


\* the artifacts other than artId are where and what they were
OthersUnchanged(artId) ==
    /\ Len(ArtifactsOf(session')) = Len(ArtifactsOf(session))
    /\ \A j \in 1..Len(ArtifactsOf(session)) :
          ArtifactsOf(session)[j].id # artId
              => ArtifactsOf(session')[j] = ArtifactsOf(session)[j]

\* artifact a is complete and holds what the content call of run returned
HoldsOwnContent(a, run) ==
    /\ a.status = "complete"
    /\ a.content = OrElse(run.text, ErrorContent)

\* the tasks in flight or settled are those of the current session, and all
\* of them have fulfilled
AllTasksFulfilled ==
    /\ session # None
    /\ TasksOf(genRuns, Get(session).id) # {}
    /\ \A j \in 1..Len(genRuns) :
          genRuns[j].pc # "manifest"
              => genRuns[j].sid = Get(session).id /\ genRuns[j].pc = "fulfilled"

\* C30: in the parallel variant a task's completion is applied to the
\* latest session: it leaves every other artifact as it was and the
\* completed artifact holds the content of its own call, and once the three
\* tasks have fulfilled every seeded artifact still present is complete
\* with the content of its own task, whatever the order of the completions.
C30_CompletionsFoldIntoLatest ==
    /\ [](AllTasksFulfilled =>
            \A j \in TasksOf(genRuns, Get(session).id) :
               \A n \in 1..Len(ArtifactsOf(session)) :
                  ArtifactsOf(session)[n].id = genRuns[j].artId
                      => HoldsOwnContent(ArtifactsOf(session)[n], genRuns[j]))
    /\ [][\A k \in 1..MaxParallelRuns :
             ParallelReasoningSettles(k) =>
                /\ OthersUnchanged(genRuns[k].artId)
                /\ genRuns'[k].pc = "fulfilled" =>
                      \A n \in 1..Len(ArtifactsOf(session')) :
                         ArtifactsOf(session')[n].id = genRuns[k].artId
                             => HoldsOwnContent(ArtifactsOf(session')[n],
                                                genRuns[k])]_vars

\* the three tasks have fulfilled with different texts next to an add-agent
\* run: the three seeded artifacts are complete, each with its own content,
\* and the agent appended meanwhile is still there
C30_Witness ==
    /\ AllTasksFulfilled
    /\ Len(ArtifactsOf(session)) = 4
    /\ \A n \in 1..3 : ArtifactsOf(session)[n].id = n
                       /\ ArtifactsOf(session)[n].status = "complete"
    /\ ArtifactsOf(session)[1].content = "t1"
    /\ ArtifactsOf(session)[2].content = ErrorContent
    /\ ArtifactsOf(session)[3].content = "t1"
    /\ ArtifactsOf(session)[4].status = "streaming"


\* a task of the current session's fan-out has not settled
TaskInFlight ==
    /\ session # None
    /\ \E j \in TasksOf(genRuns, Get(session).id) : ~Settled(genRuns[j])

\* C31 (as claimed): in the parallel variant isGenerating is true in every
\* state in which a per-artifact task of the current workflow has not yet
\* settled, also after one of the tasks has failed.
C31_GeneratingUntilAllSettled == TaskInFlight => isGenerating


\* artifact a shows its first and only variation
ShowsFirstVariation(a) ==
    /\ a.currentVariationIndex = Some(0)
    /\ VariationAt(a, 0) = Some(a.content)

\* C32 (as claimed): in the parallel variant, right after a per-artifact
\* task or an add-agent call has succeeded, the completed artifact has
\* currentVariationIndex 0 and its content is variations[0], whatever text
\* the call returned, the empty text included.
C32_ParallelContentIsVariation ==
    [][/\ \A k \in 1..MaxParallelRuns :
             (ParallelReasoningSettles(k) /\ genRuns'[k].pc = "fulfilled") =>
                \A n \in 1..Len(ArtifactsOf(session')) :
                   ArtifactsOf(session')[n].id = genRuns[k].artId
                       => ShowsFirstVariation(ArtifactsOf(session')[n])
       /\ \A k \in 1..MaxParallelAgents :
             ParallelAgentSettles(k) =>
                \A n \in 1..Len(ArtifactsOf(session')) :
                   /\ ArtifactsOf(session')[n].id = agentRuns[k].newId
                   /\ ArtifactsOf(session')[n].status = "complete"
                   => ShowsFirstVariation(ArtifactsOf(session')[n])]_vars


(***************************************************************************)
(* Focus and drawer of the sequential App component.                       *)
(***************************************************************************)
\* bounds of SpecFocus
MaxFocusSessions == 2
MaxFocusIntents == 2

\* onFocus={() => toggleFocus(artifact.id)}: the card of an artifact of the
\* session is clicked
ToggleFocus(id) ==
    /\ budget.intents > 0
    /\ \E n \in 1..Len(ArtifactsOf(session)) : ArtifactsOf(session)[n].id = id
    /\ IF focusedArtifactId = Some(id)
          THEN /\ focusedArtifactId' = None
               /\ isDrawerOpen' = FALSE
          ELSE /\ focusedArtifactId' = Some(id)
               /\ isDrawerOpen' = TRUE
    /\ budget' = [budget EXCEPT !.intents = @ - 1]
    /\ UNCHANGED <<session, isGenerating, isRefining, projectMetadata, genRuns,
                   agentRuns, refineRuns, nextSid, clock>>
    /\ UNCHANGED retryVars

\* onClose={() => setIsDrawerOpen(false)}
CloseDrawer ==
    /\ isDrawerOpen
    /\ isDrawerOpen' = FALSE
    /\ UNCHANGED <<focusedArtifactId, appVars, retryVars>>

\* const currentFocusedArtifact =
\*   session?.artifacts.find(a => a.id === focusedArtifactId) || null
CurrentFocusedArtifact ==
    IF session = None \/ focusedArtifactId = None
        THEN None
        ELSE FindArtifact(Get(session), Get(focusedArtifactId))

\* what the behaviours explored may start
FocusBudgets ==
    { [sessions |-> MaxFocusSessions, runs |-> MaxFocusSessions,
       agents |-> 0, intents |-> MaxFocusIntents] }

InitFocus == AppInit /\ budget \in FocusBudgets /\ RetryUnused

FocusNext ==
    \/ \E p \in PromptInputs : StartGeneration(p)
    \/ \E k \in 1..MaxFocusSessions : ManifestSettles(k)
    \/ \E k \in 1..MaxFocusSessions : ManifestCooldownElapses(k)
    \/ \E k \in 1..MaxFocusSessions : GenerationSettles(k)
    \/ \E k \in 1..MaxFocusSessions : CooldownElapses(k)
    \/ \E id \in ArtifactIds : ToggleFocus(id)
    \/ CloseDrawer
    \/ \E id \in ArtifactIds : RemoveArtifact(id)
    \/ NewProject

SpecFocus == InitFocus /\ [][FocusNext]_vars


(***************************************************************************)
(* Claims about focus and the blank prompt, checked under SpecFocus.       *)
(***************************************************************************)
\* C33 (as claimed): in every reachable state with a session the focused
\* artifact id is null or the id of an artifact present in the session; in
\* particular removing the focused artifact clears the focus.
C33_FocusNeverDangles ==
    session # None =>
        \/ focusedArtifactId = None
        \/ \E n \in 1..Len(ArtifactsOf(session)) :
              ArtifactsOf(session)[n].id = Get(focusedArtifactId)


\* the prompt is empty or made of white space only
IsBlank(p) == \A n \in 1..Len(p) : p[n] \in Whitespace

\* C34: startGeneration with an empty or white-space-only active prompt
\* changes nothing: session, isGenerating, focusedArtifactId, isDrawerOpen
\* and projectMetadata are what they were and no call is started.
C34_BlankPromptIsNoOp ==
    [][\A p \in PromptInputs :
          (IsBlank(p) /\ StartGeneration(p)) =>
             UNCHANGED <<session, isGenerating, focusedArtifactId,
                         isDrawerOpen, projectMetadata, genRuns, agentRuns,
                         refineRuns>>]_vars

\* startGeneration can be called with a blank prompt while a workflow runs,
\* a manifest is shown, an artifact is focused and the drawer is open
C34_Witness ==
    /\ ENABLED StartGeneration(<<" ">>)
    /\ session # None
    /\ isGenerating
    /\ genRuns # <<>>
    /\ projectMetadata # None
    /\ focusedArtifactId # None
    /\ isDrawerOpen


(***************************************************************************)
(* Further claims about the sequential App, checked under Spec.            *)
(***************************************************************************)
\* the step settles the call of the workflow at genRuns[k] and leaves the
\* artifact of that call, in the workflow's own session, not complete: the
\* call has failed for good
GenerationFails(k) ==
    /\ GenerationSettles(k)
    /\ session # None
    /\ Get(session).id = genRuns[k].sid
    /\ ~CompleteWherePresent(session', InitialArtifacts[genRuns[k].i + 1].id)

\* C35: when the generation call for the artifact at position i fails for
\* good, the workflow ends there: it is no longer in flight and never is
\* again, so no call is issued for a later position, and the step changes
\* no artifact, the completed ones at earlier positions included.
C35_NoCallAfterTerminalFailure ==
    /\ [][\A k \in 1..MaxSessions :
             GenerationFails(k) =>
                /\ RunsOfSession(genRuns', genRuns[k].sid) = {}
                /\ session' = session]_vars
    /\ [][\A sid \in 1..MaxSessions :
             (sid < nextSid /\ RunsOfSession(genRuns, sid) = {})
                => RunsOfSession(genRuns', sid) = {}]_vars

\* the only workflow has ended at position 1: the first artifact is
\* complete, the second and the third are as seeded and nothing is in flight
C35_Witness ==
    /\ SoloRun
    /\ genRuns = <<>>
    /\ ~isGenerating
    /\ Len(ArtifactsOf(session)) = 3
    /\ IsCompletedOnce(ArtifactsOf(session)[1])
    /\ IsSeeded(ArtifactsOf(session)[2])
    /\ IsSeeded(ArtifactsOf(session)[3])


\* some artifact with this id in s has variations
HasVariations(s, id) ==
    \E n \in 1..Len(ArtifactsOf(s)) :
        ArtifactsOf(s)[n].id = id /\ ArtifactsOf(s)[n].variations # None

\* the step is the settling of a generation, add-agent or refinement call
CompletionStep ==
    \/ \E k \in 1..MaxSessions : GenerationSettles(k)
    \/ \E k \in 1..MaxAgents : AgentContentSettles(k)
    \/ \E k \in 1..MaxIntents : RefineSettles(k)

\* C36: a complete artifact always has at least one variation; the
\* artifacts seeded by startGeneration and the artifact appended by
\* addAgent have none, and an artifact gets its first variation only in the
\* step that settles a generation, add-agent or refinement call and leaves
\* it complete.
C36_VariationsComeWithCompletion ==
    /\ [](\A n \in 1..Len(ArtifactsOf(session)) :
             ArtifactsOf(session)[n].status = "complete"
                => VariationsOf(ArtifactsOf(session)[n]) # <<>>)
    /\ [][/\ (session' # session /\ \E p \in PromptInputs : StartGeneration(p))
             => \A n \in 1..Len(ArtifactsOf(session')) :
                   ArtifactsOf(session')[n].variations = None
          /\ \A k \in 1..MaxAgents :
                (RoleDecisionSettles(k) /\ session' # session)
                   => ArtifactsOf(session')[Len(ArtifactsOf(session'))].variations
                         = None
          /\ \A n \in 1..Len(ArtifactsOf(session')) :
                ( /\ ArtifactsOf(session')[n].variations # None
                  /\ ~HasVariations(session, ArtifactsOf(session')[n].id) )
                   => /\ CompletionStep
                      /\ ArtifactsOf(session')[n].status = "complete"]_vars

\* a seeded artifact, an artifact completed once, an artifact completed and
\* refined, and an appended agent that has not been completed yet
C36_Witness ==
    /\ Len(ArtifactsOf(session)) = 4
    /\ ArtifactsOf(session)[1].status = "complete"
    /\ Len(VariationsOf(ArtifactsOf(session)[1])) = 2
    /\ IsCompletedOnce(ArtifactsOf(session)[2])
    /\ ArtifactsOf(session)[4].status = "streaming"
    /\ ArtifactsOf(session)[4].variations = None


\* the step settles the role-decision call of agentRuns[k] and ends the
\* run there: the call has failed for good
RoleDecisionFails(k) ==
    /\ RoleDecisionSettles(k)
    /\ Len(agentRuns') < Len(agentRuns)

\* C37: addAgent invoked without a session or while isGenerating is true
\* starts no call and changes nothing; and when the role-decision call
\* fails for good, the artifacts of the session are left as they are and
\* isGenerating is reset to false.
C37_AddAgentGuardsAndRoleFailure ==
    [][/\ (AddAgent /\ (session = None \/ isGenerating))
             => UNCHANGED <<appVars, focusVars>>
       /\ \A k \in 1..MaxAgents :
             RoleDecisionFails(k)
                => /\ session' = session
                   /\ isGenerating' = FALSE]_vars

\* addAgent has run in the only session and its role-decision call has
\* failed: no agent was appended, nothing is in flight and isGenerating is
\* false
C37_Witness ==
    /\ budget = [sessions |-> 0, runs |-> 1,
                 agents |-> MaxAgents - 1, intents |-> MaxIntents]
    /\ session # None
    /\ Len(ArtifactsOf(session)) = 3
    /\ agentRuns = <<>>
    /\ genRuns = <<>>
    /\ ~isGenerating


\* C38 (as claimed): in every reachable state projectMetadata is null or
\* the result of the manifest call issued for the current session; the
\* manifest call of an earlier startGeneration that settles after a later
\* startGeneration, or after a reset, does not set it.
C38_MetadataNeverStale ==
    projectMetadata # None =>
        /\ session # None
        /\ Get(projectMetadata).sid = Get(session).id

=============================================================================
